---------------------------- MODULE Spec2Model ----------------------------
(***************************************************************************)
(* modusDB: the lease manager (zero) and the typed object API (Create,     *)
(* Get) built on it.                                                       *)
(*                                                                         *)
(* The lease manager's counters are uint64 in the source.  The model keeps *)
(* the modular arithmetic but on UintBits-bit words, and leases in batches *)
(* of LeaseBatch instead of 10000, so that a batch boundary and a          *)
(* wrap-around are reached within the model's bounds.                      *)
(***************************************************************************)
EXTENDS Integers, Sequences, FiniteSets, TLC

\* ------------------------------------------------------------- bounds
\* Width of the unsigned words of the model (64 in the source).
UintBits == 4
\* Size of one lease batch in the model (10000 in the source).
LeaseBatch == 3
\* Largest count passed to nextUIDs by a direct caller.
MaxNum == 2
\* Bump floors passed to nextUIDs are the multiples of BumpStride.
BumpStride == 6
\* Number of process crashes explored.
MaxCrashes == 3
\* Number of failing LeaseState writes explored.
MaxWriteFailures == 1
\* Number of lease-manager calls explored in one run of the process.
MaxCalls == 3
\* The same, where only timestamps or only UIDs are drawn.
MaxTsCalls == 8
MaxUIDCalls == 5
\* Namespaces are 0..MaxNs.
MaxNs == 1
\* Number of API calls explored.
MaxOps == 4
\* API calls of the caller that creates, gets and deletes.
MaxStoreOps == 3
\* Restarts under the caller of Create.
MaxRestarts == 1
\* Encode and engine failures injected in one run.
MaxFaults == 1
\* API calls of the caller that queries.
MaxQueryOps == 2
\* Calls of nextNS in one run of the process.
MaxNsCalls == 2
\* Direct calls of filtersToQueryFunc in one run.
MaxFilterCalls == 1
\* Direct calls of paginationToQueryString in one run.
MaxPaginationCalls == 3
\* The leaseUIDs calls of one nextUIDs call are counted up to MaxLeases.
MaxLeases == 3
\* Lease-manager calls of the threads sharing it, in one run of the process.
MaxSharedCalls == 4
\* Objects created before sorted and paged queries, and the largest limit and
\* offset asked for.
MaxSortOps == 3
MaxLimit == 2
MaxOffset == 2

\* ---------------------------------------------------------- constants
zeroStateUID == 1
initialUID == 2
zeroStateTs == 2
initialTs == 3
leaseUIDAtATime == LeaseBatch
leaseTsAtATime == LeaseBatch

UintMod == 2 ^ UintBits
\* uint64 arithmetic: every sum and difference is taken modulo the word size.
U64(x) == x % UintMod

\* "No value": no LeaseState record, no id handed out yet.
Nil == 0 - 1
\* The caller of a lease-manager method that is not a Create.
Env == "env"
\* Nobody holds the lock.
NoOne == "none"
\* badger.ErrKeyNotFound: the data directory holds no LeaseState record.
NoState == [found |-> FALSE, MaxUID |-> 0, MaxTxnTs |-> 0, MaxNsID |-> 0]

VARIABLES
    zpc,            \* newZero's position: "down", "leaseUIDs", "leaseTs", "up"
    minLeasedUID, maxLeasedUID, minLeasedTs, maxLeasedTs, lastNS,
    zlock,          \* holder of zero.lock: NoOne, or the caller inside nextUIDs
    zresp,          \* the AssignedIds nextUIDs is about to return
    num,            \* the pb.Num of the last nextUIDs call, minLeasedUID and
                    \* maxLeasedUID at its entry, and its leaseUIDs calls so far
    pstore,         \* the persisted MembershipState record, or NoState
    oracleMaxAssigned,  \* argument of the last Oracle().ProcessDelta
    workerMaxUID,       \* argument of the last worker.SetMaxUID
    ret,            \* what the last lease-manager call returned
    uidOut, tsOut,  \* history: the range handed out last, and the end of the one before;
                    \* the values handed out since the process started, and
                    \* whether the last range held one of them
    boot,           \* history: the maxima newZero loaded when the process started
    firstUID, firstTs,  \* history: the first values handed out since then
    crashes, writeFailures,
    calls,          \* lease-manager calls made since the process started
    db,             \* the DB handle: "none", "open" (isOpen) or "closed"
    mutex,          \* holder of db.mutex: NoOne or a thread
    pc,             \* each thread's position in Create
    call,           \* each thread's Create call: its arguments, locals and result
    store,          \* the engine's committed data: namespace -> uid -> node
    dbret,          \* what the last API call returned
    deleted,        \* history: the lookup keys of the objects deleted so far
    gone,           \* history: those of them nothing was stored under since
    ops,            \* API calls begun so far
    faults          \* encode and engine failures so far

zvars == <<zpc, minLeasedUID, maxLeasedUID, minLeasedTs, maxLeasedTs, lastNS,
           zlock, zresp, num, pstore, oracleMaxAssigned, workerMaxUID, ret,
           uidOut, tsOut, boot, firstUID, firstTs, crashes, writeFailures,
           calls>>

dbvars == <<db, mutex, pc, call, store, dbret, deleted, gone, ops, faults>>

vars == <<zvars, dbvars>>

NoRet == [op |-> "none", err |-> FALSE, StartId |-> Nil, EndId |-> Nil]
NoResp == [StartId |-> 0, EndId |-> 0]
NoNum == [Val |-> 0, Bump |-> FALSE, min |-> 0, max |-> 0, leases |-> 0]
NoBoot == [fresh |-> TRUE, uid |-> 0, ts |-> 0]
NoOut == [prev |-> Nil, StartId |-> Nil, EndId |-> Nil,
          seen |-> {}, overlap |-> FALSE]

\* The outcome of one badger write: it may fail while failures remain.
WriteOutcomes == IF writeFailures < MaxWriteFailures THEN {TRUE, FALSE} ELSE {TRUE}

\* writeZeroState: the record built from the in-memory fields, as given.
MembershipState(uid, ts, ns) ==
    [found |-> TRUE, MaxUID |-> uid, MaxTxnTs |-> ts, MaxNsID |-> ns]

writeZeroState(ok, uid, ts, ns) ==
    /\ pstore' = IF ok THEN MembershipState(uid, ts, ns) ELSE pstore
    /\ writeFailures' = (IF ok THEN writeFailures ELSE writeFailures + 1)

\* leaseUIDs: TRUE when the early return is taken (nothing to lease).
leaseUIDsSkips == U64(minLeasedUID + leaseUIDAtATime) <= maxLeasedUID
leaseUIDsMax == U64(maxLeasedUID + U64(minLeasedUID + leaseUIDAtATime))

leaseUIDs(ok) ==
    IF leaseUIDsSkips
    THEN /\ ok
         /\ UNCHANGED <<maxLeasedUID, pstore, writeFailures>>
    ELSE /\ maxLeasedUID' = leaseUIDsMax
         /\ writeZeroState(ok, leaseUIDsMax, maxLeasedTs, lastNS)

leaseTsSkips == U64(minLeasedTs + leaseTsAtATime) <= maxLeasedTs
leaseTsMax == U64(maxLeasedTs + U64(minLeasedTs + leaseTsAtATime))

leaseTs(ok) ==
    IF leaseTsSkips
    THEN /\ ok
         /\ UNCHANGED <<maxLeasedTs, pstore, writeFailures>>
    ELSE /\ maxLeasedTs' = leaseTsMax
         /\ writeZeroState(ok, maxLeasedUID, leaseTsMax, lastNS)

\* ------------------------------------------------------------ newZero
\* Mutant of NewZeroLoad: the persisted record is ignored and the counters
\* start again from the initial values.
NewZeroLoad_ignoresState ==
    /\ zpc = "down"
    /\ minLeasedUID' = initialUID
    /\ maxLeasedUID' = initialUID
    /\ minLeasedTs' = initialTs
    /\ maxLeasedTs' = initialTs
    /\ lastNS' = 0
    /\ oracleMaxAssigned' = U64(initialTs + UintMod - 1)
    /\ workerMaxUID' = U64(initialUID + UintMod - 1)
    /\ boot' = [fresh |-> ~pstore.found, uid |-> pstore.MaxUID, ts |-> pstore.MaxTxnTs]
    /\ zpc' = "leaseUIDs"
    /\ ret' = NoRet
    /\ UNCHANGED <<zlock, zresp, pstore, uidOut, tsOut, firstUID, firstTs, crashes,
                   writeFailures, calls>>
    /\ UNCHANGED num
    /\ UNCHANGED dbvars

\* readZeroState and the field assignments, then the priming of the engine.
NewZeroLoad ==
    /\ zpc = "down"
    /\ LET uid == IF ~pstore.found THEN initialUID ELSE pstore.MaxUID
           ts == IF ~pstore.found THEN initialTs ELSE pstore.MaxTxnTs
           ns == IF ~pstore.found THEN 0 ELSE pstore.MaxNsID
       IN /\ minLeasedUID' = uid
          /\ maxLeasedUID' = uid
          /\ minLeasedTs' = ts
          /\ maxLeasedTs' = ts
          /\ lastNS' = ns
          /\ oracleMaxAssigned' = U64(ts + UintMod - 1)
          /\ workerMaxUID' = U64(uid + UintMod - 1)
    /\ boot' = [fresh |-> ~pstore.found, uid |-> pstore.MaxUID, ts |-> pstore.MaxTxnTs]
    /\ zpc' = "leaseUIDs"
    /\ ret' = NoRet
    /\ UNCHANGED <<zlock, zresp, pstore, uidOut, tsOut, firstUID, firstTs, crashes,
                   writeFailures, calls>>
    /\ UNCHANGED num
    /\ UNCHANGED dbvars

NewZeroLeaseUIDs ==
    /\ zpc = "leaseUIDs"
    /\ \E ok \in WriteOutcomes :
          /\ leaseUIDs(ok)
          /\ zpc' = IF ok THEN "leaseTs" ELSE "down"
          /\ ret' = [NoRet EXCEPT !.op = "newZero", !.err = ~ok]
    /\ UNCHANGED <<minLeasedUID, minLeasedTs, maxLeasedTs, lastNS, zlock, zresp,
                   oracleMaxAssigned, workerMaxUID, uidOut, tsOut, boot,
                   firstUID, firstTs, crashes, calls>>
    /\ UNCHANGED num
    /\ UNCHANGED dbvars

NewZeroLeaseTs ==
    /\ zpc = "leaseTs"
    /\ \E ok \in WriteOutcomes :
          /\ leaseTs(ok)
          /\ zpc' = IF ok THEN "up" ELSE "down"
          /\ ret' = [NoRet EXCEPT !.op = "newZero", !.err = ~ok]
    /\ UNCHANGED <<minLeasedUID, maxLeasedUID, minLeasedTs, lastNS, zlock, zresp,
                   oracleMaxAssigned, workerMaxUID, uidOut, tsOut, boot,
                   firstUID, firstTs, crashes, calls>>
    /\ UNCHANGED num
    /\ UNCHANGED dbvars

\* ------------------------------------------------------------- nextTS
nextTS(c, ok) ==
    /\ zpc = "up" /\ zlock = NoOne
    /\ IF minLeasedTs >= maxLeasedTs
       THEN leaseTs(ok)
       ELSE ok /\ UNCHANGED <<maxLeasedTs, pstore, writeFailures>>
    /\ IF ok
       THEN /\ minLeasedTs' = U64(minLeasedTs + 1)
            /\ oracleMaxAssigned' = minLeasedTs
            /\ ret' = [op |-> "nextTS", err |-> FALSE,
                       StartId |-> minLeasedTs, EndId |-> minLeasedTs]
            /\ tsOut' = [prev |-> tsOut.EndId,
                         StartId |-> minLeasedTs, EndId |-> minLeasedTs,
                         seen |-> tsOut.seen \cup {minLeasedTs},
                         overlap |-> minLeasedTs \in tsOut.seen]
            /\ firstTs' = IF firstTs = Nil THEN minLeasedTs ELSE firstTs
       ELSE /\ ret' = [NoRet EXCEPT !.op = "nextTS", !.err = TRUE]
            /\ UNCHANGED <<minLeasedTs, oracleMaxAssigned, tsOut, firstTs>>
    /\ UNCHANGED <<zpc, minLeasedUID, maxLeasedUID, lastNS, zlock, zresp,
                   workerMaxUID, uidOut, boot, firstUID, crashes>>
    /\ UNCHANGED num

\* ------------------------------------------------------------- readTs
\* Mutant of readTs: the value is taken off the range, as nextTS does.
readTs_consumes ==
    /\ zpc = "up" /\ zlock = NoOne
    /\ minLeasedTs' = U64(minLeasedTs + 1)
    /\ ret' = [op |-> "readTs", err |-> FALSE,
               StartId |-> minLeasedTs, EndId |-> minLeasedTs]
    /\ UNCHANGED <<zpc, minLeasedUID, maxLeasedUID, maxLeasedTs, lastNS,
                   zlock, zresp, num, pstore, oracleMaxAssigned, workerMaxUID,
                   uidOut, tsOut, boot, firstUID, firstTs, crashes, writeFailures>>

\* return z.minLeasedTs - 1, under z.lock.
readTs ==
    /\ zpc = "up" /\ zlock = NoOne
    /\ ret' = [op |-> "readTs", err |-> FALSE,
               StartId |-> U64(minLeasedTs + UintMod - 1),
               EndId |-> U64(minLeasedTs + UintMod - 1)]
    /\ UNCHANGED <<zpc, minLeasedUID, maxLeasedUID, minLeasedTs, maxLeasedTs, lastNS,
                   zlock, zresp, num, pstore, oracleMaxAssigned, workerMaxUID,
                   uidOut, tsOut, boot, firstUID, firstTs, crashes, writeFailures>>

\* ------------------------------------------------------------- nextNS
\* Mutant of nextNS: the record is written before the increment, so that it
\* holds the namespace id before the one returned.
nextNS_writesFirst(ok) ==
    /\ zpc = "up" /\ zlock = NoOne
    /\ lastNS' = U64(lastNS + 1)
    /\ writeZeroState(ok, maxLeasedUID, maxLeasedTs, lastNS)
    /\ ret' = IF ok
              THEN [op |-> "nextNS", err |-> FALSE,
                    StartId |-> U64(lastNS + 1), EndId |-> U64(lastNS + 1)]
              ELSE [NoRet EXCEPT !.op = "nextNS", !.err = TRUE]
    /\ UNCHANGED <<zpc, minLeasedUID, maxLeasedUID, minLeasedTs, maxLeasedTs,
                   zlock, zresp, num, oracleMaxAssigned, workerMaxUID,
                   uidOut, tsOut, boot, firstUID, firstTs, crashes>>

\* z.lastNS++ and then writeZeroState, on every call; the increment stays when
\* the write fails.
nextNS(ok) ==
    /\ zpc = "up" /\ zlock = NoOne
    /\ lastNS' = U64(lastNS + 1)
    /\ writeZeroState(ok, maxLeasedUID, maxLeasedTs, U64(lastNS + 1))
    /\ ret' = IF ok
              THEN [op |-> "nextNS", err |-> FALSE,
                    StartId |-> U64(lastNS + 1), EndId |-> U64(lastNS + 1)]
              ELSE [NoRet EXCEPT !.op = "nextNS", !.err = TRUE]
    /\ UNCHANGED <<zpc, minLeasedUID, maxLeasedUID, minLeasedTs, maxLeasedTs,
                   zlock, zresp, num, oracleMaxAssigned, workerMaxUID,
                   uidOut, tsOut, boot, firstUID, firstTs, crashes>>

\* ----------------------------------------------------------- nextUIDs
\* Mutant of nextUIDsAlloc: the count is added to the start without the -1, so
\* that the range ends on the first identifier of the next one.
nextUIDsAlloc_endOffByOne(c, val, bump) ==
    /\ zpc = "up" /\ zlock = NoOne
    /\ zlock' = c
    /\ num' = [Val |-> val, Bump |-> bump, min |-> minLeasedUID,
               max |-> maxLeasedUID, leases |-> 0]
    /\ IF bump
       THEN IF minLeasedUID >= val
            THEN /\ zresp' = [StartId |-> minLeasedUID, EndId |-> minLeasedUID]
                 /\ minLeasedUID' = U64(minLeasedUID + 1)
            ELSE /\ zresp' = [StartId |-> minLeasedUID, EndId |-> val]
                 /\ minLeasedUID' = U64(val + 1)
       ELSE /\ zresp' = [StartId |-> minLeasedUID,
                         EndId |-> U64(minLeasedUID + val)]
            /\ minLeasedUID' = U64(minLeasedUID + val)
    /\ ret' = NoRet
    /\ UNCHANGED <<zpc, maxLeasedUID, minLeasedTs, maxLeasedTs, lastNS, pstore,
                   oracleMaxAssigned, workerMaxUID, uidOut, tsOut, boot, firstUID,
                   firstTs, crashes, writeFailures>>

\* Lock, build the response and advance minLeasedUID (lines 111-126).
nextUIDsAlloc(c, val, bump) ==
    /\ zpc = "up" /\ zlock = NoOne
    /\ zlock' = c
    /\ num' = [Val |-> val, Bump |-> bump, min |-> minLeasedUID,
               max |-> maxLeasedUID, leases |-> 0]
    /\ IF bump
       THEN IF minLeasedUID >= val
            THEN /\ zresp' = [StartId |-> minLeasedUID, EndId |-> minLeasedUID]
                 /\ minLeasedUID' = U64(minLeasedUID + 1)
            ELSE /\ zresp' = [StartId |-> minLeasedUID, EndId |-> val]
                 /\ minLeasedUID' = U64(val + 1)
       ELSE /\ zresp' = [StartId |-> minLeasedUID,
                         EndId |-> U64(minLeasedUID + val + UintMod - 1)]
            /\ minLeasedUID' = U64(minLeasedUID + val)
    /\ ret' = NoRet
    /\ UNCHANGED <<zpc, maxLeasedUID, minLeasedTs, maxLeasedTs, lastNS, pstore,
                   oracleMaxAssigned, workerMaxUID, uidOut, tsOut, boot, firstUID,
                   firstTs, crashes, writeFailures>>

\* One iteration of the lease loop (lines 128-132); a failing write returns.
nextUIDsLease(c, ok) ==
    /\ zlock = c
    /\ minLeasedUID >= maxLeasedUID
    /\ leaseUIDs(ok)
    /\ zlock' = IF ok THEN c ELSE NoOne
    /\ ret' = IF ok THEN NoRet ELSE [NoRet EXCEPT !.op = "nextUIDs", !.err = TRUE]
    /\ UNCHANGED <<zpc, minLeasedUID, minLeasedTs, maxLeasedTs, lastNS, zresp,
                   oracleMaxAssigned, workerMaxUID, uidOut, tsOut, boot, firstUID,
                   firstTs, crashes>>
    /\ num' = [num EXCEPT !.leases = IF @ < MaxLeases THEN @ + 1 ELSE @]

\* The loop is over: SetMaxUID, unlock and return the response.
nextUIDsReturn(c) ==
    /\ zlock = c
    /\ minLeasedUID < maxLeasedUID
    /\ workerMaxUID' = U64(minLeasedUID + UintMod - 1)
    /\ zlock' = NoOne
    /\ zresp' = NoResp
    /\ ret' = [op |-> "nextUIDs", err |-> FALSE,
               StartId |-> zresp.StartId, EndId |-> zresp.EndId]
    /\ uidOut' = [prev |-> uidOut.EndId,
                  StartId |-> zresp.StartId, EndId |-> zresp.EndId,
                  seen |-> uidOut.seen \cup (zresp.StartId..zresp.EndId),
                  overlap |-> (zresp.StartId..zresp.EndId) \cap uidOut.seen # {}]
    /\ firstUID' = IF firstUID = Nil THEN zresp.StartId ELSE firstUID
    /\ UNCHANGED <<zpc, minLeasedUID, maxLeasedUID, minLeasedTs, maxLeasedTs,
                   lastNS, pstore, oracleMaxAssigned, tsOut, boot, firstTs, crashes,
                   writeFailures>>
    /\ UNCHANGED num

\* ----------------------------------------------------- typed objects
Threads == {"t1", "t2"}
Namespaces == 0..MaxNs
UIDs == 0..(UintMod - 1)
Names == {"P", "Q"}
Keys == {"k1", "k2"}
TypeNames == {"Project", "Branch"}
\* The test types without a unique field on the nested type, and the type of a
\* pointer to a Project (Create[*Project]).
BadTypeNames == {"BadProject", "BadBranch"}
PtrTypeNames == {"*Project"}

\* The test types: Project {gid, name, clerk_id (unique)} and Branch {gid, name,
\* clerk_id (unique), proj Project}.  A Go value of either type is a record; a
\* Project's proj, and a Branch's proj that was never set, is the zero value.
NoProj == [gid |-> 0, name |-> "", clerk_id |-> ""]
NoObj == [type |-> "Project", gid |-> 0, name |-> "", clerk_id |-> "", proj |-> NoProj]

\* utils.GetPredicateName: "<Type>.<field>".
GetPredicateName(typeName, field) == <<typeName, field>>

ScalarFields == {"name", "clerk_id"}
\* utils.GetFieldTags: the constraint of a field's db tag, "none" when the field
\* carries no db tag.  The fields that carry one are the unique fields.
Constraint(typeName, field) ==
    IF field = "clerk_id" /\ typeName # "BadProject" THEN "exact" ELSE "none"
\* Mutant of UniqueFields: every scalar field counts as a unique field.
UniqueFields_everyField(typeName) == ScalarFields

UniqueFields(typeName) == {f \in ScalarFields : Constraint(typeName, f) # "none"}

\* reflect: the kind of the value Create is given, and the type of the
\* nested-object field of a type ("" when it has none).
Kind(typeName) == IF typeName \in PtrTypeNames THEN "ptr" ELSE "struct"
NestedType(typeName) ==
    IF typeName = "Branch" THEN "Project"
    ELSE IF typeName = "BadBranch" THEN "BadProject"
    ELSE ""

ErrExpectedStruct == "expected struct, got ptr"
NoUniqueConstr(typeName) == "unique constraint not defined for any field on type " \o typeName

\* The checks of the encode step: the shape of the input, then a unique field
\* on the type and on the type of its nested object.
ValidateObject(obj) ==
    IF Kind(obj.type) # "struct" THEN ErrExpectedStruct
    ELSE IF UniqueFields(obj.type) = {} THEN NoUniqueConstr(obj.type)
    ELSE IF NestedType(obj.type) # "" /\ UniqueFields(NestedType(obj.type)) = {}
    THEN NoUniqueConstr(NestedType(obj.type))
    ELSE "nil"

\* A node of the graph: predicate -> value, "" (Nil for an edge) when absent.
Preds == {GetPredicateName(t, f) : t \in TypeNames \cup BadTypeNames, f \in ScalarFields}
             \cup {GetPredicateName("Branch", "proj"), GetPredicateName("BadBranch", "proj")}
NoNode == [p \in Preds |-> IF p[2] = "proj" THEN Nil ELSE ""]
EmptyStore == [n \in Namespaces |-> [u \in UIDs |-> NoNode]]

\* The engine's answer to a query block: the matching uids, ascending.
RECURSIVE Ascending(_)
Ascending(S) ==
    IF S = {} THEN <<>>
    ELSE LET m == CHOOSE x \in S : \A y \in S : x <= y
         IN <<m>> \o Ascending(S \ {m})

\* dql_query.BuildUidQuery / BuildEqQuery, as the engine evaluates them on st.
BuildUidQuery(st, ns, gid) ==
    Ascending({u \in UIDs : u = gid /\ st[ns][u] # NoNode})
BuildEqQuery(st, ns, pred, value) ==
    Ascending({u \in UIDs : st[ns][u][pred] = value})

\* utils.MapDynamicToFinal: the node's predicates named after the type, copied
\* into the type's fields; the reserved uid key gives the identifier.
DecodeProject(st, ns, uid) ==
    [gid |-> uid,
     name |-> st[ns][uid][GetPredicateName("Project", "name")],
     clerk_id |-> st[ns][uid][GetPredicateName("Project", "clerk_id")]]

MapDynamicToFinal(st, ns, typeName, uid) ==
    [type |-> typeName, gid |-> uid,
     name |-> st[ns][uid][GetPredicateName(typeName, "name")],
     clerk_id |-> st[ns][uid][GetPredicateName(typeName, "clerk_id")],
     proj |-> IF typeName = "Branch" /\ st[ns][uid][GetPredicateName("Branch", "proj")] # Nil
              THEN DecodeProject(st, ns, st[ns][uid][GetPredicateName("Branch", "proj")])
              ELSE NoProj]

\* A UniqueField argument: an identifier or a ConstrainedField.
ByGid(gid) == [kind |-> "gid", gid |-> gid, Key |-> "", Value |-> ""]
ByField(key, value) == [kind |-> "cf", gid |-> 0, Key |-> key, Value |-> value]

ErrNoObjFound == "no object found"
ErrConstraint == "constraint not defined"
ErrClosedDB == "closed"

\* Mutant of executeGetWithObject: the zero-result check is missing and the
\* preallocated zero-valued instance is returned with a nil error.
executeGetWithObject_noEmptyCheck(st, ns, typeName, arg) ==
    LET res == IF arg.kind = "gid"
               THEN BuildUidQuery(st, ns, arg.gid)
               ELSE BuildEqQuery(st, ns, GetPredicateName(typeName, arg.Key), arg.Value)
    IN IF res = <<>>
       THEN [err |-> "nil", gid |-> 0, obj |-> [NoObj EXCEPT !.type = typeName]]
       ELSE [err |-> "nil", gid |-> res[1],
             obj |-> MapDynamicToFinal(st, ns, typeName, res[1])]

\* Mutant of executeGetWithObject: the constrained-field query is built on the
\* bare key instead of the predicate name of the type.
executeGetWithObject_barePredicate(st, ns, typeName, arg) ==
    LET res == IF arg.kind = "gid"
               THEN BuildUidQuery(st, ns, arg.gid)
               ELSE BuildEqQuery(st, ns, GetPredicateName("Project", arg.Key), arg.Value)
    IN IF res = <<>>
       THEN [err |-> ErrNoObjFound, gid |-> 0, obj |-> [NoObj EXCEPT !.type = typeName]]
       ELSE [err |-> "nil", gid |-> res[1],
             obj |-> MapDynamicToFinal(st, ns, typeName, res[1])]

\* Mutant of executeGetWithObject: the query runs in the default namespace
\* instead of the namespace it was given.
executeGetWithObject_defaultNamespace(st, ns, typeName, arg) ==
    LET res == IF arg.kind = "gid"
               THEN BuildUidQuery(st, 0, arg.gid)
               ELSE BuildEqQuery(st, 0, GetPredicateName(typeName, arg.Key), arg.Value)
    IN IF res = <<>>
       THEN [err |-> ErrNoObjFound, gid |-> 0, obj |-> [NoObj EXCEPT !.type = typeName]]
       ELSE [err |-> "nil", gid |-> res[1],
             obj |-> MapDynamicToFinal(st, 0, typeName, res[1])]

\* Mutant of executeGetWithObject: the object passed in is returned instead of
\* the decoded one.
executeGetWithObject_zeroObject(st, ns, typeName, arg) ==
    LET res == IF arg.kind = "gid"
               THEN BuildUidQuery(st, ns, arg.gid)
               ELSE BuildEqQuery(st, ns, GetPredicateName(typeName, arg.Key), arg.Value)
        zero == [NoObj EXCEPT !.type = typeName]
    IN IF res = <<>>
       THEN [err |-> ErrNoObjFound, gid |-> 0, obj |-> zero]
       ELSE [err |-> "nil", gid |-> res[1], obj |-> zero]

\* executeGetWithObject: build the query, evaluate it, fail on zero results,
\* decode the first result.
executeGetWithObject(st, ns, typeName, arg) ==
    LET res == IF arg.kind = "gid"
               THEN BuildUidQuery(st, ns, arg.gid)
               ELSE BuildEqQuery(st, ns, GetPredicateName(typeName, arg.Key), arg.Value)
        zero == [NoObj EXCEPT !.type = typeName]
    IN IF arg.kind = "cf" /\ Constraint(typeName, arg.Key) = ""
       THEN [err |-> ErrConstraint, gid |-> 0, obj |-> zero]
       ELSE IF res = <<>>
       THEN [err |-> ErrNoObjFound, gid |-> 0, obj |-> zero]
       ELSE [err |-> "nil", gid |-> res[1],
             obj |-> MapDynamicToFinal(st, ns, typeName, res[1])]

\* ------------------------------------------------------------ Create
NoCall == [ns |-> 0, obj |-> NoObj, gid |-> 0, startTs |-> Nil, commitTs |-> Nil,
           mut |-> {}, engine |-> <<>>, byKey |-> FALSE, dedup |-> FALSE, nBefore |-> 0,
           closedAtEntry |-> FALSE, err |-> "none",
           upsert |-> FALSE, prev |-> NoObj, nStored |-> 0,
           cancelled |-> FALSE]
NoDbRet == [op |-> "none", who |-> NoOne, err |-> "none", ns |-> 0, type |-> "",
            arg |-> ByGid(0), gid |-> 0, obj |-> NoObj, gids |-> <<>>, objs |-> <<>>, clause |-> <<>>]

\* One write of a mutation set: the triples of one object under its identifier.
Write(uid, obj, link) ==
    [uid |-> uid, type |-> obj.type, name |-> obj.name, clerk_id |-> obj.clerk_id,
     link |-> link]

\* The engine applies a write: each predicate of the type takes its new value.
ApplyWrite(node, w) ==
    [p \in Preds |->
        IF p = GetPredicateName(w.type, "name") THEN w.name
        ELSE IF p = GetPredicateName(w.type, "clerk_id") THEN w.clerk_id
        ELSE IF p = GetPredicateName(w.type, "proj") /\ w.link # Nil THEN w.link
        ELSE node[p]]

RECURSIVE ApplyWrites(_, _)
ApplyWrites(nodes, mut) ==
    IF mut = {} THEN nodes
    ELSE LET w == CHOOSE x \in mut : TRUE
         IN ApplyWrites([nodes EXCEPT ![w.uid] = ApplyWrite(nodes[w.uid], w)],
                        mut \ {w})

\* The outcome of an encode or engine step: it may fail while faults remain.
EngineOutcomes == IF faults < MaxFaults THEN {TRUE, FALSE} ELSE {TRUE}
Fault(ok) == faults' = (IF ok THEN faults ELSE faults + 1)

\* Mutant of CreateReturns: a return path that leaves the write lock held.
CreateReturns_keepsLock(t, c, err) ==
    /\ pc' = [pc EXCEPT ![t] = "idle"]
    /\ call' = [call EXCEPT ![t] = [c EXCEPT !.err = err]]
    /\ UNCHANGED mutex
    /\ dbret' = [op |-> IF c.upsert THEN "Upsert" ELSE "Create",
                 who |-> t, err |-> err, ns |-> c.ns, type |-> c.obj.type,
                 gids |-> <<>>, objs |-> <<>>, clause |-> <<>>,
                 arg |-> ByGid(0), gid |-> IF err = "nil" THEN c.gid ELSE 0, obj |-> c.obj]

\* Every return path of Create: the deferred Unlock, then the result.
CreateReturns(t, c, err) ==
    /\ pc' = [pc EXCEPT ![t] = "idle"]
    /\ call' = [call EXCEPT ![t] = [c EXCEPT !.err = err]]
    /\ mutex' = NoOne
    /\ dbret' = [op |-> IF c.upsert THEN "Upsert" ELSE "Create",
                 who |-> t, err |-> err, ns |-> c.ns, type |-> c.obj.type,
                 gids |-> <<>>, objs |-> <<>>, clause |-> <<>>,
                 arg |-> ByGid(0), gid |-> IF err = "nil" THEN c.gid ELSE 0, obj |-> c.obj]

CreateGoes(t, c, to) ==
    /\ pc' = [pc EXCEPT ![t] = to]
    /\ call' = [call EXCEPT ![t] = c]
    /\ dbret' = NoDbRet
    /\ UNCHANGED mutex

\* The caller of a running Create cancels its own context. Create has no
\* context parameter: it makes its own with context.Background() (api.go:45),
\* so that no step of Create reads what the caller cancelled.
CallerCancels(t) ==
    /\ pc[t] # "idle" /\ ~call[t].cancelled
    /\ call' = [call EXCEPT ![t].cancelled = TRUE]
    /\ UNCHANGED <<zvars, db, mutex, pc, store, dbret, deleted, gone, ops, faults>>

\* Mutant of CreateLock: the write lock is taken without waiting for it.
CreateLock_noWait(t, ns, obj) ==
    /\ pc[t] = "idle" /\ db # "none"
    /\ ops < MaxOps
    /\ ops' = ops + 1
    /\ mutex' = t
    /\ pc' = [pc EXCEPT ![t] = "getNamespace"]
    /\ call' = [call EXCEPT ![t] =
                 [NoCall EXCEPT !.ns = ns, !.obj = obj, !.closedAtEntry = (db = "closed")]]
    /\ dbret' = NoDbRet
    /\ UNCHANGED <<zvars, db, store, deleted, gone, faults>>

\* db.mutex.Lock() (api.go:47): the call waits until the lock is free.
CreateLock(t, ns, obj) ==
    /\ pc[t] = "idle" /\ db # "none"
    /\ ops < MaxOps
    /\ ops' = ops + 1
    /\ mutex = NoOne
    /\ mutex' = t
    /\ pc' = [pc EXCEPT ![t] = "getNamespace"]
    /\ call' = [call EXCEPT ![t] =
                 [NoCall EXCEPT !.ns = ns, !.obj = obj, !.closedAtEntry = (db = "closed")]]
    /\ dbret' = NoDbRet
    /\ UNCHANGED <<zvars, db, store, deleted, gone, faults>>

\* Create is called (api.go:44) and reaches db.mutex.Lock() (api.go:47): the
\* caller is now waiting for the write lock.
CreateCall(t, ns, obj) ==
    /\ pc[t] = "idle" /\ db # "none"
    /\ ops < MaxOps
    /\ ops' = ops + 1
    /\ pc' = [pc EXCEPT ![t] = "lock"]
    /\ call' = [call EXCEPT ![t] = [NoCall EXCEPT !.ns = ns, !.obj = obj]]
    /\ dbret' = NoDbRet
    /\ UNCHANGED <<zvars, db, mutex, store, deleted, gone, faults>>

\* db.mutex.Lock() returns to a waiting caller (api.go:47) once the lock is
\* free.
CreateAcquire(t) ==
    /\ pc[t] = "lock"
    /\ mutex = NoOne
    /\ mutex' = t
    /\ pc' = [pc EXCEPT ![t] = "getNamespace"]
    /\ call' = [call EXCEPT ![t].closedAtEntry = (db = "closed")]
    /\ dbret' = NoDbRet
    /\ UNCHANGED <<zvars, db, store, deleted, gone, ops, faults>>

\* db.getNamespaceWithLock: a closed handle is rejected.
getNamespaceWithLock(ns) == IF db = "open" THEN "nil" ELSE ErrClosedDB

\* Mutant of CreateGetNamespace: the error of getDefaultNamespace is dropped.
CreateGetNamespace_ignoresError(t) ==
    /\ pc[t] = "getNamespace"
    /\ CreateGoes(t, call[t], "nextUID")
    /\ UNCHANGED <<zvars, ops, db, store, deleted, gone, faults>>

\* getDefaultNamespace (api.go:50-53).
CreateGetNamespace(t) ==
    /\ pc[t] = "getNamespace"
    /\ LET err == getNamespaceWithLock(call[t].ns)
       IN IF err = "nil"
          THEN CreateGoes(t, call[t], "nextUID")
          ELSE CreateReturns(t, call[t], err)
    /\ UNCHANGED <<zvars, ops, db, store, deleted, gone, faults>>

\* db.z.nextUID() (api.go:54-57), and the same call made for a nested object.
CreateNextUID(t) ==
    /\ pc[t] \in {"nextUID", "nestedUID"}
    /\ nextUIDsAlloc(t, 1, FALSE)
    /\ CreateGoes(t, call[t], IF pc[t] = "nextUID" THEN "leaseUID" ELSE "leaseNested")
    /\ UNCHANGED <<calls, ops, db, store, deleted, gone, faults>>

CreateLeaseUID(t) ==
    /\ pc[t] \in {"leaseUID", "leaseNested"}
    /\ \E ok \in WriteOutcomes :
          /\ nextUIDsLease(t, ok)
          /\ IF ok THEN CreateGoes(t, call[t], pc[t])
                   ELSE CreateReturns(t, call[t], "lease")
    /\ UNCHANGED <<calls, ops, db, store, deleted, gone, faults>>

\* nextUID has returned: the outer identifier (api.go:54), or the identifier of
\* a nested object that is created with its parent.
CreateGotUID(t) ==
    /\ pc[t] \in {"leaseUID", "leaseNested"}
    /\ nextUIDsReturn(t)
    /\ LET c == call[t]
           id == zresp.StartId
           nested == [c.obj.proj EXCEPT !.gid = id]
       IN IF pc[t] = "leaseUID"
          THEN CreateGoes(t, [c EXCEPT !.gid = id], "generate")
          ELSE CreateGoes(t,
                  [c EXCEPT !.obj.proj = nested,
                            !.mut = {Write(c.gid, c.obj, id),
                                     Write(id, [type |-> NestedType(c.obj.type),
                                                name |-> nested.name,
                                                clerk_id |-> nested.clerk_id], Nil)}],
                  "alterSchema")
    /\ UNCHANGED <<calls, ops, db, store, deleted, gone, faults>>

\* The stored entities of a type that carry a value in a field.
Carriers(st, ns, typeName, field, value) ==
    {u \in UIDs : st[ns][u][GetPredicateName(typeName, field)] = value}

\* Mutant of generateCreateDqlMutationAndSchema: a nested object that carries an
\* identifier is created again under a new one.
generateCreateDqlMutationAndSchema_createsNested(t) ==
    LET nested == NestedType(call[t].obj.type)
        byKey == ValidateObject(call[t].obj) = "nil" /\ nested # "" /\ call[t].obj.proj.gid = 0
        p == call[t].obj.proj
        c == [call[t] EXCEPT
                !.byKey = byKey,
                !.nBefore = IF byKey
                            THEN Cardinality(Carriers(store, call[t].ns, nested,
                                                      "clerk_id", p.clerk_id))
                            ELSE 0]
        found == executeGetWithObject(store, c.ns, nested, ByField("clerk_id", p.clerk_id))
    IN IF ValidateObject(c.obj) # "nil"
       THEN CreateReturns(t, c, ValidateObject(c.obj))
       ELSE IF nested = ""
       THEN CreateGoes(t, [c EXCEPT !.mut = {Write(c.gid, c.obj, Nil)}], "alterSchema")
       ELSE IF p.gid # 0
       THEN CreateGoes(t, c, "nestedUID")
       ELSE IF found.err = "nil"
       THEN CreateGoes(t,
               [c EXCEPT !.obj.proj.gid = found.gid,
                         !.mut = {Write(c.gid, c.obj, found.gid)},
                         !.dedup = TRUE],
               "alterSchema")
       ELSE IF found.err = ErrNoObjFound
       THEN CreateGoes(t, c, "nestedUID")
       ELSE CreateReturns(t, c, found.err)

\* generateCreateDqlMutationAndSchema: one triple per scalar field; a nested
\* object is linked by its identifier, or by a lookup on its unique field in
\* the same namespace, or else created.
generateCreateDqlMutationAndSchema(t) ==
    LET nested == NestedType(call[t].obj.type)
        byKey == ValidateObject(call[t].obj) = "nil" /\ nested # "" /\ call[t].obj.proj.gid = 0
        p == call[t].obj.proj
        c == [call[t] EXCEPT
                !.byKey = byKey,
                !.nBefore = IF byKey
                            THEN Cardinality(Carriers(store, call[t].ns, nested,
                                                      "clerk_id", p.clerk_id))
                            ELSE 0]
        found == executeGetWithObject(store, c.ns, nested, ByField("clerk_id", p.clerk_id))
    IN IF ValidateObject(c.obj) # "nil"
       THEN CreateReturns(t, c, ValidateObject(c.obj))
       ELSE IF nested = ""
       THEN CreateGoes(t, [c EXCEPT !.mut = {Write(c.gid, c.obj, Nil)}], "alterSchema")
       ELSE IF p.gid # 0
       THEN CreateGoes(t, [c EXCEPT !.mut = {Write(c.gid, c.obj, p.gid)}], "alterSchema")
       ELSE IF found.err = "nil"
       THEN CreateGoes(t,
               [c EXCEPT !.obj.proj.gid = found.gid,
                         !.mut = {Write(c.gid, c.obj, found.gid)},
                         !.dedup = TRUE],
               "alterSchema")
       ELSE IF found.err = ErrNoObjFound
       THEN CreateGoes(t, c, "nestedUID")
       ELSE CreateReturns(t, c, found.err)

\* Mutant of CreateGenerate: the error of the encode step is dropped and Create
\* goes on with the empty mutation set.
CreateGenerate_ignoresError(t) ==
    /\ pc[t] = "generate"
    /\ \E ok \in EngineOutcomes :
          /\ Fault(ok)
          /\ IF ok /\ ValidateObject(call[t].obj) = "nil"
             THEN generateCreateDqlMutationAndSchema(t)
             ELSE CreateGoes(t, call[t], "alterSchema")
    /\ UNCHANGED <<zvars, ops, db, store, deleted, gone>>

\* generateCreateDqlMutationAndSchema and query.ToDirectedEdges (api.go:59-67).
CreateGenerate(t) ==
    /\ pc[t] = "generate"
    /\ \E ok \in EngineOutcomes :
          /\ Fault(ok)
          /\ IF ok THEN generateCreateDqlMutationAndSchema(t)
                   ELSE CreateReturns(t, call[t], "encode")
    /\ UNCHANGED <<zvars, ops, db, store, deleted, gone>>

\* The lookup key k is stored under again by the mutation set mut in namespace ns.
StoredUnder(k, ns, mut) ==
    /\ k.ns = ns
    /\ \E w \in mut :
          \/ k.arg.kind = "gid" /\ w.uid = k.arg.gid
          \/ k.arg.kind = "cf" /\ w.type = k.type /\ w.clerk_id = k.arg.Value

\* An engine call is recorded with its outcome.
Engine(c, op, ok) == [c EXCEPT !.engine = Append(c.engine, <<op, ok>>)]

\* Mutant of CreateAlterSchema: Create goes on when the alteration failed.
CreateAlterSchema_ignoresError(t) ==
    /\ pc[t] = "alterSchema"
    /\ \E ok \in EngineOutcomes :
          /\ Fault(ok)
          /\ CreateGoes(t, Engine(call[t], "alter", ok), "checkOpen")
    /\ UNCHANGED <<zvars, ops, db, store, deleted, gone>>

\* n.alterSchemaWithParsed (api.go:70-73).
CreateAlterSchema(t) ==
    /\ pc[t] = "alterSchema"
    /\ \E ok \in EngineOutcomes :
          /\ Fault(ok)
          /\ IF ok THEN CreateGoes(t, Engine(call[t], "alter", ok), "checkOpen")
                   ELSE CreateReturns(t, Engine(call[t], "alter", ok), "alter")
    /\ UNCHANGED <<zvars, ops, db, store, deleted, gone>>

\* if !db.isOpen (api.go:75-77).
CreateCheckOpen(t) ==
    /\ pc[t] = "checkOpen"
    /\ IF db = "open" THEN CreateGoes(t, call[t], "startTs")
                      ELSE CreateReturns(t, call[t], ErrClosedDB)
    /\ UNCHANGED <<zvars, ops, db, store, deleted, gone, faults>>

\* startTs, err := db.z.nextTs() and commitTs, err := db.z.nextTs() (api.go:79-86).
CreateNextTs(t) ==
    /\ pc[t] \in {"startTs", "commitTs"}
    /\ \E ok \in WriteOutcomes :
          /\ nextTS(t, ok)
          /\ IF ~ok THEN CreateReturns(t, call[t], "lease")
             ELSE IF pc[t] = "startTs"
             THEN CreateGoes(t, [call[t] EXCEPT !.startTs = minLeasedTs], "commitTs")
             ELSE CreateGoes(t, [call[t] EXCEPT !.commitTs = minLeasedTs], "expandEdges")
    /\ UNCHANGED <<calls, ops, db, store, deleted, gone, faults>>

\* query.ExpandEdges (api.go:93-96).
CreateExpandEdges(t) ==
    /\ pc[t] = "expandEdges"
    /\ \E ok \in EngineOutcomes :
          /\ Fault(ok)
          /\ IF ok THEN CreateGoes(t, call[t], "applyMutations")
                   ELSE CreateReturns(t, call[t], "expand")
    /\ UNCHANGED <<zvars, ops, db, store, deleted, gone>>

\* worker.ApplyMutations at startTs (api.go:98-101).
CreateApplyMutations(t) ==
    /\ pc[t] = "applyMutations"
    /\ \E ok \in EngineOutcomes :
          /\ Fault(ok)
          /\ IF ok THEN CreateGoes(t, Engine(call[t], "mutate", ok), "applyCommited")
                   ELSE CreateReturns(t, Engine(call[t], "mutate", ok), "mutate")
    /\ UNCHANGED <<zvars, ops, db, store, deleted, gone>>

\* worker.ApplyCommited with (startTs, commitTs) (api.go:103-108): the mutation
\* becomes visible to queries.
CreateApplyCommited(t) ==
    /\ pc[t] = "applyCommited"
    /\ \E ok \in EngineOutcomes :
          /\ Fault(ok)
          /\ IF ok
             THEN /\ CreateGoes(t, Engine(call[t], "commit", ok), "stamp")
                  /\ store' = [store EXCEPT ![call[t].ns] = ApplyWrites(@, call[t].mut)]
                  /\ gone' = {k \in gone : ~StoredUnder(k, call[t].ns, call[t].mut)}
             ELSE /\ CreateReturns(t, Engine(call[t], "commit", ok), "commit")
                  /\ UNCHANGED <<store, gone>>
    /\ UNCHANGED <<zvars, ops, db, deleted>>

\* Mutant of CreateStamp: the Gid field of the caller's object is left as it was.
CreateStamp_noStamp(t) ==
    /\ pc[t] = "stamp"
    /\ CreateReturns(t, call[t], "nil")
    /\ UNCHANGED <<zvars, ops, db, store, deleted, gone, faults>>

\* The identifier is set on the caller's object (api.go:110-118).
CreateStamp(t) ==
    /\ pc[t] = "stamp"
    /\ CreateReturns(t, [call[t] EXCEPT !.obj.gid = call[t].gid], "nil")
    /\ UNCHANGED <<zvars, ops, db, store, deleted, gone, faults>>

\* The steps of one Create call.
Create(t) ==
    \/ CreateGetNamespace(t)
    \/ CreateNextUID(t)
    \/ CreateLeaseUID(t)
    \/ CreateGotUID(t)
    \/ CreateGenerate(t)
    \/ CreateAlterSchema(t)
    \/ CreateCheckOpen(t)
    \/ CreateNextTs(t)
    \/ CreateExpandEdges(t)
    \/ CreateApplyMutations(t)
    \/ CreateApplyCommited(t)
    \/ CreateStamp(t)

\* ------------------------------------------------------------ Upsert
\* The stored entities of a namespace.
Stored(st, ns) == {u \in UIDs : st[ns][u] # NoNode}

\* Upsert takes the write lock as Create does.  prev is the object the caller
\* got back from the upsert before, when obj is that object with a field changed.
UpsertLock(t, ns, obj, prev) ==
    /\ pc[t] = "idle" /\ db # "none"
    /\ ops < MaxOps
    /\ ops' = ops + 1
    /\ mutex = NoOne
    /\ mutex' = t
    /\ pc' = [pc EXCEPT ![t] = "upsertNamespace"]
    /\ call' = [call EXCEPT ![t] =
                 [NoCall EXCEPT !.ns = ns, !.obj = obj, !.closedAtEntry = (db = "closed"),
                                !.upsert = TRUE, !.prev = prev,
                                !.nStored = Cardinality(Stored(store, ns))]]
    /\ dbret' = NoDbRet
    /\ UNCHANGED <<zvars, db, store, deleted, gone, faults>>

\* The namespace, then the identifier: an object that carries one keeps it, an
\* object without one gets a new one as in Create.
UpsertGetNamespace(t) ==
    /\ pc[t] = "upsertNamespace"
    /\ LET err == getNamespaceWithLock(call[t].ns)
           c == call[t]
       IN IF err # "nil" THEN CreateReturns(t, c, err)
          ELSE IF c.obj.gid # 0 THEN CreateGoes(t, [c EXCEPT !.gid = c.obj.gid], "generate")
          ELSE CreateGoes(t, c, "nextUID")
    /\ UNCHANGED <<zvars, ops, db, store, deleted, gone, faults>>

\* The steps of one Upsert call: its own first step, then those of Create.
Upsert(t) ==
    \/ UpsertGetNamespace(t)
    \/ CreateNextUID(t)
    \/ CreateLeaseUID(t)
    \/ CreateGotUID(t)
    \/ CreateGenerate(t)
    \/ CreateAlterSchema(t)
    \/ CreateCheckOpen(t)
    \/ CreateNextTs(t)
    \/ CreateExpandEdges(t)
    \/ CreateApplyMutations(t)
    \/ CreateApplyCommited(t)
    \/ CreateStamp(t)

\* --------------------------------------------------- Open, Close, Get, Delete
\* New: the handle is open once newZero has returned.
Open ==
    /\ db = "none" /\ zpc = "up"
    /\ db' = "open"
    /\ dbret' = [NoDbRet EXCEPT !.op = "New", !.err = "nil"]
    /\ UNCHANGED <<zvars, mutex, pc, call, store, deleted, gone, ops, faults>>

\* Close: isOpen is cleared.
Close ==
    /\ db = "open"
    /\ db' = "closed"
    /\ dbret' = [NoDbRet EXCEPT !.op = "Close", !.err = "nil"]
    /\ UNCHANGED <<zvars, mutex, pc, call, store, deleted, gone, ops, faults>>

\* Mutant of Get: the error of the query is dropped and its object returned.
Get_nilError(t, ns, typeName, arg) ==
    /\ pc[t] = "idle" /\ db # "none"
    /\ LET err == getNamespaceWithLock(ns)
           r == executeGetWithObject(store, ns, typeName, arg)
       IN dbret' = [op |-> "Get", who |-> t, ns |-> ns, type |-> typeName, arg |-> arg,
                    gids |-> <<>>, objs |-> <<>>, clause |-> <<>>,
                    err |-> IF err = "nil" THEN "nil" ELSE err,
                    gid |-> IF err = "nil" THEN r.gid ELSE 0,
                    obj |-> IF err = "nil" THEN r.obj ELSE [NoObj EXCEPT !.type = typeName]]
    /\ UNCHANGED <<zvars, db, mutex, pc, call, store, deleted, gone, ops, faults>>

\* Get (api.go:121-136): the namespace, then the query by identifier or by
\* constrained field.
Get(t, ns, typeName, arg) ==
    /\ pc[t] = "idle" /\ db # "none"
    /\ LET err == getNamespaceWithLock(ns)
           r == executeGetWithObject(store, ns, typeName, arg)
       IN dbret' = [op |-> "Get", who |-> t, ns |-> ns, type |-> typeName, arg |-> arg,
                    gids |-> <<>>, objs |-> <<>>, clause |-> <<>>,
                    err |-> IF err = "nil" THEN r.err ELSE err,
                    gid |-> IF err = "nil" THEN r.gid ELSE 0,
                    obj |-> IF err = "nil" THEN r.obj ELSE [NoObj EXCEPT !.type = typeName]]
    /\ UNCHANGED <<zvars, db, mutex, pc, call, store, deleted, gone, ops, faults>>

\* The lookup keys of a stored object: its identifier and its unique fields.
KeysOf(ns, typeName, o) ==
    {[ns |-> ns, type |-> typeName, arg |-> ByGid(o.gid)]}
      \cup {[ns |-> ns, type |-> typeName, arg |-> ByField(f, o[f])] :
               f \in {g \in UniqueFields(typeName) : o[g] # ""}}

\* Delete: under the write lock, the object is looked up as Get does, and every
\* triple of its node is removed.
Delete(t, ns, typeName, arg) ==
    /\ pc[t] = "idle" /\ db # "none"
    /\ mutex = NoOne
    /\ ops < MaxOps
    /\ ops' = ops + 1
    /\ LET err == getNamespaceWithLock(ns)
           r == executeGetWithObject(store, ns, typeName, arg)
           after == [store EXCEPT ![ns][r.gid] = NoNode]
           keys == KeysOf(ns, typeName, r.obj)
       IN IF err # "nil" \/ r.err # "nil"
          THEN /\ dbret' = [op |-> "Delete", who |-> t, ns |-> ns, type |-> typeName,
                            gids |-> <<>>, objs |-> <<>>, clause |-> <<>>,
                            arg |-> arg, err |-> IF err = "nil" THEN r.err ELSE err,
                            gid |-> 0, obj |-> [NoObj EXCEPT !.type = typeName]]
               /\ UNCHANGED <<store, deleted, gone>>
          ELSE /\ dbret' = [op |-> "Delete", who |-> t, ns |-> ns, type |-> typeName,
                            gids |-> <<>>, objs |-> <<>>, clause |-> <<>>,
                            arg |-> arg, err |-> "nil", gid |-> r.gid, obj |-> r.obj]
               /\ store' = after
               /\ deleted' = deleted \cup keys
               /\ gone' = gone \cup
                     {k \in keys : \/ k.arg.kind = "gid"
                                   \/ BuildEqQuery(after, ns,
                                         GetPredicateName(typeName, k.arg.Key),
                                         k.arg.Value) = <<>>}
    /\ UNCHANGED <<zvars, db, mutex, pc, call, faults>>

\* ------------------------------------------------------------ Filter
\* A nil *Filter, and a nil []float32.
NilFilter == [nil |-> TRUE]
NilVector == [nil |-> TRUE, elems |-> <<>>]
\* A []float32 that is not nil.
Vector(elems) == [nil |-> FALSE, elems |-> elems]

\* The zero Filter: no field, no predicate, no logical operator.
ZeroFilter ==
    [Field |-> "", Equals |-> "", LessThan |-> "", LessOrEqual |-> "",
     GreaterThan |-> "", GreaterOrEqual |-> "", AllOfTerms |-> <<>>,
     AnyOfTerms |-> <<>>, AllOfText |-> <<>>, AnyOfText |-> <<>>, RegExp |-> "",
     SimilarTo |-> NilVector, TopK |-> 0,
     And |-> NilFilter, Or |-> NilFilter, Not |-> NilFilter]

\* strings.Join(elems, " ").
RECURSIVE Join(_)
Join(elems) ==
    IF elems = <<>> THEN ""
    ELSE IF Len(elems) = 1 THEN elems[1]
    ELSE elems[1] \o " " \o Join(Tail(elems))

\* The clause of no condition: func() string { return "" }.
EmptyClause == <<>>

\* Mutant of filterToQueryFunc: GreaterThan is tested before LessThan.
RECURSIVE filterToQueryFunc_greaterFirst(_, _)
filterToQueryFunc_greaterFirst(typeName, f) ==
    LET pred == GetPredicateName(typeName, f.Field)
    IN IF f.And # NilFilter THEN <<"And", filterToQueryFunc_greaterFirst(typeName, f.And)>>
       ELSE IF f.Or # NilFilter THEN <<"Or", filterToQueryFunc_greaterFirst(typeName, f.Or)>>
       ELSE IF f.Not # NilFilter THEN <<"Not", filterToQueryFunc_greaterFirst(typeName, f.Not)>>
       ELSE IF f.Equals # "" THEN <<"BuildEqQuery", pred, f.Equals>>
       ELSE IF Len(f.AllOfTerms) # 0 THEN <<"BuildAllOfTermsQuery", pred, Join(f.AllOfTerms)>>
       ELSE IF Len(f.AnyOfTerms) # 0 THEN <<"BuildAnyOfTermsQuery", pred, Join(f.AnyOfTerms)>>
       ELSE IF Len(f.AllOfText) # 0 THEN <<"BuildAllOfTextQuery", pred, Join(f.AllOfText)>>
       ELSE IF Len(f.AnyOfText) # 0 THEN <<"BuildAnyOfTextQuery", pred, Join(f.AnyOfText)>>
       ELSE IF f.RegExp # "" THEN <<"BuildRegExpQuery", pred, f.RegExp>>
       ELSE IF f.GreaterThan # "" THEN <<"BuildGtQuery", pred, f.GreaterThan>>
       ELSE IF f.LessThan # "" THEN <<"BuildLtQuery", pred, f.LessThan>>
       ELSE IF f.LessOrEqual # "" THEN <<"BuildLeQuery", pred, f.LessOrEqual>>
       ELSE IF f.GreaterOrEqual # "" THEN <<"BuildGeQuery", pred, f.GreaterOrEqual>>
       ELSE IF f.SimilarTo # NilVector
            THEN <<"BuildSimilarToQuery", pred, f.TopK, f.SimilarTo>>
       ELSE EmptyClause

\* filterToQueryFunc (api_types.go:197-246): the dql_query builder that is
\* called, with its arguments; a logical operator is called on the clause of
\* its child.
RECURSIVE filterToQueryFunc(_, _)
filterToQueryFunc(typeName, f) ==
    LET pred == GetPredicateName(typeName, f.Field)
    IN IF f.And # NilFilter THEN <<"And", filterToQueryFunc(typeName, f.And)>>
       ELSE IF f.Or # NilFilter THEN <<"Or", filterToQueryFunc(typeName, f.Or)>>
       ELSE IF f.Not # NilFilter THEN <<"Not", filterToQueryFunc(typeName, f.Not)>>
       ELSE IF f.Equals # "" THEN <<"BuildEqQuery", pred, f.Equals>>
       ELSE IF Len(f.AllOfTerms) # 0 THEN <<"BuildAllOfTermsQuery", pred, Join(f.AllOfTerms)>>
       ELSE IF Len(f.AnyOfTerms) # 0 THEN <<"BuildAnyOfTermsQuery", pred, Join(f.AnyOfTerms)>>
       ELSE IF Len(f.AllOfText) # 0 THEN <<"BuildAllOfTextQuery", pred, Join(f.AllOfText)>>
       ELSE IF Len(f.AnyOfText) # 0 THEN <<"BuildAnyOfTextQuery", pred, Join(f.AnyOfText)>>
       ELSE IF f.RegExp # "" THEN <<"BuildRegExpQuery", pred, f.RegExp>>
       ELSE IF f.LessThan # "" THEN <<"BuildLtQuery", pred, f.LessThan>>
       ELSE IF f.LessOrEqual # "" THEN <<"BuildLeQuery", pred, f.LessOrEqual>>
       ELSE IF f.GreaterThan # "" THEN <<"BuildGtQuery", pred, f.GreaterThan>>
       ELSE IF f.GreaterOrEqual # "" THEN <<"BuildGeQuery", pred, f.GreaterOrEqual>>
       ELSE IF f.SimilarTo # NilVector
            THEN <<"BuildSimilarToQuery", pred, f.TopK, f.SimilarTo>>
       ELSE EmptyClause

\* filtersToQueryFunc (api_types.go:249-251), called on a filter: the clause
\* is what the call returns.
filtersToQueryFunc(t, typeName, filter) ==
    /\ pc[t] = "idle"
    /\ ops < MaxFilterCalls
    /\ ops' = ops + 1
    /\ dbret' = [NoDbRet EXCEPT !.op = "filtersToQueryFunc", !.who = t,
                                !.type = typeName, !.arg = filter,
                                !.clause = filterToQueryFunc(typeName, filter)]
    /\ UNCHANGED <<zvars, db, mutex, pc, call, store, deleted, gone, faults>>

\* The filters of one node: every combination of predicates set and unset on
\* one field.
LeafFilters ==
    {[ZeroFilter EXCEPT !.Field = "name", !.Equals = eq, !.LessThan = lt,
                        !.LessOrEqual = le, !.GreaterThan = gt, !.GreaterOrEqual = ge,
                        !.AllOfTerms = at, !.AnyOfTerms = yt, !.AllOfText = ax,
                        !.AnyOfText = yx, !.RegExp = re, !.SimilarTo = sim,
                        !.TopK = IF sim = NilVector THEN 0 ELSE 1] :
        eq \in {"", "e"}, lt \in {"", "lt"}, le \in {"", "le"}, gt \in {"", "gt"},
        ge \in {"", "ge"}, at \in {<<>>, <<"a", "b">>}, yt \in {<<>>, <<"c">>},
        ax \in {<<>>, <<"d", "e">>}, yx \in {<<>>, <<"f">>}, re \in {"", "/r/"},
        sim \in {NilVector, Vector(<<>>), Vector(<<1>>)}}

\* The children a logical operator points to: nothing set, one predicate, two
\* predicates, and a filter that has a child of its own.
ChildFilters ==
    LET one == [ZeroFilter EXCEPT !.Field = "clerk_id", !.Equals = "k1"]
        two == [ZeroFilter EXCEPT !.Field = "name", !.LessThan = "Q", !.AnyOfTerms = <<"P", "Q">>]
    IN {ZeroFilter, one, two, [two EXCEPT !.Not = one], [ZeroFilter EXCEPT !.Or = two]}

\* Filters with logical operators, with and without a predicate of their own.
LogicalFilters ==
    {[own EXCEPT !.And = a, !.Or = o, !.Not = n] :
        own \in {ZeroFilter, [ZeroFilter EXCEPT !.Field = "name", !.Equals = "e", !.RegExp = "/r/"]},
        a \in ChildFilters \cup {NilFilter}, o \in ChildFilters \cup {NilFilter},
        n \in ChildFilters \cup {NilFilter}}

\* ------------------------------------------------------------- Query
\* A nil *Pagination and a nil *Sorting.
NilPagination == [nil |-> TRUE]
NilSorting == [nil |-> TRUE]
Pagination(limit, offset) == [Limit |-> limit, Offset |-> offset, After |-> ""]
OrderAsc(field) ==
    [OrderAscField |-> field, OrderDescField |-> "", OrderDescFirst |-> FALSE]

\* QueryParams; NoFilter is QueryParams{}, EqualsFilter has a leaf filter with
\* String.Equals set.
QueryParams(filter, pagination, sorting) ==
    [kind |-> "query", Filter |-> filter, Pagination |-> pagination, Sorting |-> sorting]
NoFilter == QueryParams(NilFilter, NilPagination, NilSorting)
EqualsFilter(field, value) ==
    QueryParams([ZeroFilter EXCEPT !.Field = field, !.Equals = value],
                NilPagination, NilSorting)

\* Mutant of paginationToQueryString: the cursor is tested on its own, not as
\* the alternative of the offset.
paginationToQueryString_cursorWithOffset(p) ==
    (IF p.Limit > 0 THEN <<<<"first", p.Limit>>>> ELSE <<>>)
       \o (IF p.Offset > 0 THEN <<<<"offset", p.Offset>>>> ELSE <<>>)
       \o (IF p.After # "" THEN <<<<"after", p.After>>>> ELSE <<>>)

\* Mutant of paginationToQueryString: the offset is left out.
paginationToQueryString_noOffset(p) ==
    IF p.Limit > 0 THEN <<<<"first", p.Limit>>>> ELSE <<>>

\* paginationToQueryString (api_types.go:253-267): the arguments added to the
\* query, in order.
paginationToQueryString(p) ==
    (IF p.Limit > 0 THEN <<<<"first", p.Limit>>>> ELSE <<>>)
       \o (IF p.Offset > 0 THEN <<<<"offset", p.Offset>>>>
           ELSE IF p.After # "" THEN <<<<"after", p.After>>>>
           ELSE <<>>)

\* executeQuery's call of paginationToQueryString on a Pagination that is not
\* nil: the fragments are what the call returns.
PaginationString(t, p) ==
    /\ pc[t] = "idle"
    /\ ops < MaxPaginationCalls
    /\ ops' = ops + 1
    /\ dbret' = [NoDbRet EXCEPT !.op = "paginationToQueryString", !.who = t,
                                !.arg = p, !.clause = paginationToQueryString(p)]
    /\ UNCHANGED <<zvars, db, mutex, pc, call, store, deleted, gone, faults>>

\* The Paginations tried: limits and offsets below, at and above zero, with
\* and without a cursor.
Cursors == {"", "0x2"}
Paginations ==
    {[Pagination(l, o) EXCEPT !.After = a] :
        l \in (0 - 1)..MaxLimit, o \in (0 - 1)..MaxOffset, a \in Cursors}

\* sortingToQueryString (api_types.go:269-291).
sortingToQueryString(typeName, srt) ==
    IF srt.OrderAscField = "" /\ srt.OrderDescField = "" THEN <<>>
    ELSE LET first == IF srt.OrderDescFirst THEN srt.OrderDescField ELSE srt.OrderAscField
             second == IF srt.OrderDescFirst THEN srt.OrderAscField ELSE srt.OrderDescField
             firstOp == IF srt.OrderDescFirst THEN "orderdesc" ELSE "orderasc"
             secondOp == IF srt.OrderDescFirst THEN "orderasc" ELSE "orderdesc"
         IN (IF first # "" THEN <<<<firstOp, GetPredicateName(typeName, first)>>>> ELSE <<>>)
               \o (IF second # "" THEN <<<<secondOp, GetPredicateName(typeName, second)>>>>
                   ELSE <<>>)

\* The engine's order of string values: byte order.
StrOrder == <<"", "B", "P", "Q", "k1", "k2">>
StrRank(v) == CHOOSE i \in 1..Len(StrOrder) : StrOrder[i] = v

\* The engine evaluates a clause on an entity: eq and the ordered comparisons on
\* the value of the predicate; the empty clause passes every entity.
EvalClause(node, clause) ==
    IF clause = EmptyClause THEN TRUE
    ELSE LET v == node[clause[2]]
         IN CASE clause[1] = "BuildEqQuery" -> v = clause[3]
              [] clause[1] = "BuildLtQuery" -> v # "" /\ StrRank(v) < StrRank(clause[3])
              [] clause[1] = "BuildLeQuery" -> v # "" /\ StrRank(v) <= StrRank(clause[3])
              [] clause[1] = "BuildGtQuery" -> v # "" /\ StrRank(v) > StrRank(clause[3])
              [] clause[1] = "BuildGeQuery" -> v # "" /\ StrRank(v) >= StrRank(clause[3])

\* The engine's sort key of an entity: one rank per orderasc/orderdesc argument,
\* negated for orderdesc, then the identifier.
SortKey(node, uid, sorting) ==
    [i \in 1..Len(sorting) |->
        IF sorting[i][1] = "orderasc" THEN StrRank(node[sorting[i][2]])
        ELSE 0 - StrRank(node[sorting[i][2]])] \o <<uid>>

RECURSIVE LexLeq(_, _)
LexLeq(a, b) ==
    IF a = <<>> THEN TRUE
    ELSE IF a[1] # b[1] THEN a[1] < b[1]
    ELSE LexLeq(Tail(a), Tail(b))

RECURSIVE Sorted(_, _, _)
Sorted(nodes, S, sorting) ==
    IF S = {} THEN <<>>
    ELSE LET m == CHOOSE x \in S : \A y \in S :
                     LexLeq(SortKey(nodes[x], x, sorting), SortKey(nodes[y], y, sorting))
         IN <<m>> \o Sorted(nodes, S \ {m}, sorting)

\* The value of a pagination argument, 0 when it is not given.
ArgOf(pagination, name) ==
    IF \E i \in 1..Len(pagination) : pagination[i][1] = name
    THEN pagination[CHOOSE i \in 1..Len(pagination) : pagination[i][1] = name][2]
    ELSE 0

\* dql_query.FormatObjsQuery, as the engine evaluates it on st: the entities of
\* the type that pass the filter clause, in the order asked for (ascending
\* identifier when none is), after the offset, up to the first limit.
FormatObjsQuery(st, ns, typeName, clause, pagination, sorting) ==
    LET S == {u \in UIDs :
                 /\ \E f \in ScalarFields : st[ns][u][GetPredicateName(typeName, f)] # ""
                 /\ EvalClause(st[ns][u], clause)}
        all == Sorted(st[ns], S, sorting)
        from == ArgOf(pagination, "offset") + 1
        n == ArgOf(pagination, "first")
        to == IF n > 0 /\ from + n - 1 < Len(all) THEN from + n - 1 ELSE Len(all)
    IN SubSeq(all, from, to)

\* executeQuery's query (config.go:198-223): the clause of the filter, the
\* pagination and the sorting, each only when given.
QueryOf(st, ns, typeName, queryParams) ==
    FormatObjsQuery(st, ns, typeName,
        IF queryParams.Filter # NilFilter
        THEN filterToQueryFunc(typeName, queryParams.Filter) ELSE EmptyClause,
        IF queryParams.Pagination # NilPagination
        THEN paginationToQueryString(queryParams.Pagination) ELSE <<>>,
        IF queryParams.Sorting # NilSorting
        THEN sortingToQueryString(typeName, queryParams.Sorting) ELSE <<>>)

\* Mutant of executeQuery: an empty result is reported as "no object found".
executeQuery_errorOnEmpty(st, ns, typeName, queryParams) ==
    LET res == QueryOf(st, ns, typeName, queryParams)
    IN IF res = <<>>
       THEN [err |-> ErrNoObjFound, gids |-> <<>>, objs |-> <<>>]
       ELSE [err |-> "nil", gids |-> res,
             objs |-> [i \in 1..Len(res) |-> MapDynamicToFinal(st, ns, typeName, res[i])]]

\* executeQuery (config.go:189-275): one decoded object per element of the
\* engine's result, in its order; no element, no object.
executeQuery(st, ns, typeName, queryParams) ==
    LET res == QueryOf(st, ns, typeName, queryParams)
    IN [err |-> "nil", gids |-> res,
        objs |-> [i \in 1..Len(res) |-> MapDynamicToFinal(st, ns, typeName, res[i])]]

\* Query: the namespace, then executeQuery.
Query(t, ns, typeName, queryParams) ==
    /\ pc[t] = "idle" /\ db # "none"
    /\ LET err == getNamespaceWithLock(ns)
           r == executeQuery(store, ns, typeName, queryParams)
       IN dbret' = [op |-> "Query", who |-> t, ns |-> ns, type |-> typeName,
                    arg |-> queryParams,
                    err |-> IF err = "nil" THEN r.err ELSE err,
                    gid |-> 0, obj |-> [NoObj EXCEPT !.type = typeName],
                    gids |-> IF err = "nil" THEN r.gids ELSE <<>>,
                    clause |-> <<>>,
                    objs |-> IF err = "nil" THEN r.objs ELSE <<>>]
    /\ UNCHANGED <<zvars, db, mutex, pc, call, store, deleted, gone, ops, faults>>

Filters ==
    {NoFilter} \cup {EqualsFilter("name", n) : n \in Names}
               \cup {EqualsFilter("clerk_id", k) : k \in Keys}

\* Queries with one ordered comparison on the name, and queries sorted
\* ascending on a field with a limit and an offset.
ComparisonQueries ==
    {QueryParams([ZeroFilter EXCEPT !.Field = "name", ![fam] = n],
                 NilPagination, NilSorting) :
        fam \in {"LessThan", "LessOrEqual", "GreaterThan", "GreaterOrEqual"}, n \in Names}
PagedQueries ==
    {QueryParams(NilFilter, Pagination(l, o), OrderAsc(f)) :
        l \in 0..MaxLimit, o \in 0..MaxOffset, f \in ScalarFields}

\* The objects callers create.
PtrObjs == {[NoObj EXCEPT !.type = "*Project", !.name = "P", !.clerk_id = "k1"]}
BadObjs ==
    {[type |-> "BadBranch", gid |-> 0, name |-> "B", clerk_id |-> "k1",
      proj |-> [gid |-> 0, name |-> "P", clerk_id |-> "k2"]],
     [NoObj EXCEPT !.type = "BadProject", !.name = "P", !.clerk_id = "k2"]}
GoodObjs ==
    {[NoObj EXCEPT !.name = "P", !.clerk_id = "k2"],
     [type |-> "Branch", gid |-> 0, name |-> "B", clerk_id |-> "k1",
      proj |-> [gid |-> 0, name |-> "P", clerk_id |-> "k2"]]}
ProjectObjs ==
    {[NoObj EXCEPT !.name = n, !.clerk_id = k] : n \in Names, k \in Keys}
NestedObjs ==
    {[gid |-> 0, name |-> "P", clerk_id |-> k] : k \in Keys}
       \cup {[NoProj EXCEPT !.gid = initialUID]}
BranchObjs ==
    {[type |-> "Branch", gid |-> 0, name |-> "B", clerk_id |-> "k2", proj |-> p] :
        p \in NestedObjs}
GetArgs ==
    {ByGid(g) : g \in initialUID..(initialUID + 1)}
       \cup {ByField("clerk_id", k) : k \in Keys}

\* Lookups by a field that carries no db tag, next to those of GetArgs.
LookupArgs == GetArgs \cup {ByField("name", n) : n \in Names}

\* ------------------------------------------------- direct callers
BumpFloors == {f \in 1..(UintMod - 1) : f % BumpStride = 0}

\* A direct caller makes at most `bound` calls in one run of the process.
EnvNextTS(bound) ==
    /\ calls < bound
    /\ calls' = calls + 1
    /\ \E ok \in WriteOutcomes : nextTS(Env, ok)
    /\ UNCHANGED dbvars

EnvNextUIDs(bound) ==
    /\ calls < bound
    /\ calls' = calls + 1
    /\ \/ \E val \in 1..MaxNum : nextUIDsAlloc(Env, val, FALSE)
       \/ \E val \in BumpFloors : nextUIDsAlloc(Env, val, TRUE)
    /\ UNCHANGED dbvars

EnvNextUIDsLease ==
    /\ \E ok \in WriteOutcomes : nextUIDsLease(Env, ok)
    /\ UNCHANGED <<calls, dbvars>>

EnvNextUIDsReturn ==
    /\ nextUIDsReturn(Env)
    /\ UNCHANGED <<calls, dbvars>>

EnvReadTs ==
    /\ readTs
    /\ UNCHANGED <<calls, dbvars>>

EnvNextNS(bound) ==
    /\ calls < bound
    /\ calls' = calls + 1
    /\ \E ok \in WriteOutcomes : nextNS(ok)
    /\ UNCHANGED dbvars

\* Several threads call the lease manager directly; a call that finds z.lock
\* held waits for it.
ThreadNextUIDs(t, bound) ==
    /\ calls < bound
    /\ calls' = calls + 1
    /\ \/ \E val \in 1..MaxNum : nextUIDsAlloc(t, val, FALSE)
       \/ \E val \in BumpFloors : nextUIDsAlloc(t, val, TRUE)
    /\ UNCHANGED dbvars

ThreadNextUIDsLease(t) ==
    /\ \E ok \in WriteOutcomes : nextUIDsLease(t, ok)
    /\ UNCHANGED <<calls, dbvars>>

ThreadNextUIDsReturn(t) ==
    /\ nextUIDsReturn(t)
    /\ UNCHANGED <<calls, dbvars>>

ThreadNextTS(t, bound) ==
    /\ calls < bound
    /\ calls' = calls + 1
    /\ \E ok \in WriteOutcomes : nextTS(t, ok)
    /\ UNCHANGED dbvars

\* The process dies: the in-memory lease manager is gone, the record stays.
Crash ==
    /\ crashes < MaxCrashes
    /\ zpc # "down"
    /\ crashes' = crashes + 1
    /\ zpc' = "down"
    /\ zlock' = NoOne
    /\ ret' = NoRet
    /\ minLeasedUID' = 0 /\ maxLeasedUID' = 0
    /\ minLeasedTs' = 0 /\ maxLeasedTs' = 0
    /\ lastNS' = 0
    /\ zresp' = NoResp
    /\ num' = NoNum
    /\ calls' = 0
    /\ oracleMaxAssigned' = 0
    /\ workerMaxUID' = 0
    /\ boot' = NoBoot
    /\ firstUID' = Nil
    /\ firstTs' = Nil
    /\ db' = "none"
    /\ mutex' = NoOne
    /\ pc' = [t \in Threads |-> "idle"]
    /\ call' = [t \in Threads |-> NoCall]
    /\ dbret' = NoDbRet
    /\ ops' = 0
    /\ uidOut' = [uidOut EXCEPT !.seen = {}, !.overlap = FALSE]
    /\ tsOut' = [tsOut EXCEPT !.seen = {}, !.overlap = FALSE]
    /\ UNCHANGED <<pstore, writeFailures, store, deleted, gone, faults>>

Init ==
    /\ zpc = "down"
    /\ minLeasedUID = 0 /\ maxLeasedUID = 0
    /\ minLeasedTs = 0 /\ maxLeasedTs = 0
    /\ lastNS = 0
    /\ zlock = NoOne
    /\ zresp = NoResp
    /\ num = NoNum
    /\ pstore = NoState
    /\ oracleMaxAssigned = 0
    /\ workerMaxUID = 0
    /\ ret = NoRet
    /\ uidOut = NoOut
    /\ tsOut = NoOut
    /\ boot = NoBoot
    /\ firstUID = Nil
    /\ firstTs = Nil
    /\ crashes = 0
    /\ writeFailures = 0
    /\ calls = 0
    /\ db = "none"
    /\ mutex = NoOne
    /\ pc = [t \in Threads |-> "idle"]
    /\ call = [t \in Threads |-> NoCall]
    /\ store = EmptyStore
    /\ dbret = NoDbRet
    /\ deleted = {}
    /\ gone = {}
    /\ ops = 0
    /\ faults = 0

NewZero ==
    \/ NewZeroLoad
    \/ NewZeroLeaseUIDs
    \/ NewZeroLeaseTs

\* The lease manager under direct callers of both id spaces.
NextZero ==
    \/ NewZero
    \/ EnvNextTS(MaxCalls)
    \/ EnvNextUIDs(MaxCalls)
    \/ EnvNextUIDsLease
    \/ EnvNextUIDsReturn
    \/ Crash

SpecZero == Init /\ [][NextZero]_vars

\* The timestamp space alone, deep enough to use up a batch.
NextTs ==
    \/ NewZero
    \/ EnvNextTS(MaxTsCalls)
    \/ Crash

SpecTs == Init /\ [][NextTs]_vars

\* The UID space alone.
NextUIDs ==
    \/ NewZero
    \/ EnvNextUIDs(MaxUIDCalls)
    \/ EnvNextUIDsLease
    \/ EnvNextUIDsReturn
    \/ Crash

SpecUIDs == Init /\ [][NextUIDs]_vars

\* The namespace space alone, over restarts.
NextNS ==
    \/ NewZero
    \/ EnvNextNS(MaxNsCalls)
    \/ Crash

SpecNS == Init /\ [][NextNS]_vars

\* Two threads on one lease manager.
NextShared ==
    \/ NewZero
    \/ \E t \in Threads : ThreadNextUIDs(t, MaxSharedCalls)
    \/ \E t \in Threads : ThreadNextUIDsLease(t)
    \/ \E t \in Threads : ThreadNextUIDsReturn(t)
    \/ \E t \in Threads : ThreadNextTS(t, MaxSharedCalls)
    \/ crashes < MaxRestarts /\ Crash

SpecShared == Init /\ [][NextShared]_vars

\* Two callers of Create on one handle that may be closed under them.
NextCreate ==
    \/ NewZero
    \/ Open
    \/ Close
    \/ \E t \in Threads : CreateLock(t, 0, [NoObj EXCEPT !.name = "P", !.clerk_id = "k1"])
    \/ \E t \in Threads : Create(t)

SpecCreate == Init /\ [][NextCreate]_vars

\* Two callers of Create that wait for the write lock. The Go scheduler runs
\* every runnable goroutine, so that a caller inside Create keeps taking its
\* next step (weak fairness); sync.Mutex hands the lock to a goroutine that
\* has waited for it (starvation mode), so that a caller to which the lock is
\* free again and again gets it (strong fairness).
NextWaiting ==
    \/ NewZero
    \/ Open
    \/ Close
    \/ \E t \in Threads : CreateCall(t, 0, [NoObj EXCEPT !.name = "P", !.clerk_id = "k1"])
    \/ \E t \in Threads : CreateAcquire(t)
    \/ \E t \in Threads : Create(t)

SpecWaiting ==
    /\ Init /\ [][NextWaiting]_vars
    /\ \A t \in Threads : WF_vars(Create(t)) /\ SF_vars(CreateAcquire(t))

\* One caller of Create over restarts of the process.
NextCommit ==
    \/ NewZero
    \/ Open
    \/ CreateLock("t1", 0, [NoObj EXCEPT !.name = "P", !.clerk_id = "k1"])
    \/ Create("t1")
    \/ crashes < MaxRestarts /\ Crash

SpecCommit == Init /\ [][NextCommit]_vars

\* A step in which neither the lease record's write nor the engine fails.
NoFailure == faults' = faults /\ writeFailures' = writeFailures

\* One caller that creates, gets and deletes objects of both types, on storage
\* that does not fail.
NextStore ==
    \/ NewZero /\ NoFailure
    \/ Open
    \/ \E ns \in Namespaces, obj \in ProjectObjs \cup BranchObjs :
          ops < MaxStoreOps /\ CreateLock("t1", ns, obj)
    \/ Create("t1") /\ NoFailure
    \/ \E ns \in Namespaces, ty \in TypeNames, arg \in GetArgs : Get("t1", ns, ty, arg)
    \/ \E ns \in Namespaces, ty \in TypeNames, arg \in GetArgs :
          ops < MaxStoreOps /\ Delete("t1", ns, ty, arg)

SpecStore == Init /\ [][NextStore]_vars

\* One caller that creates Projects and gets objects by identifier, by a
\* constrained field and by a field without a constraint.
NextLookup ==
    \/ NewZero /\ NoFailure
    \/ Open
    \/ \E ns \in Namespaces, obj \in ProjectObjs :
          ops < MaxQueryOps /\ CreateLock("t1", ns, obj)
    \/ Create("t1") /\ NoFailure
    \/ \E ns \in Namespaces, ty \in TypeNames, arg \in LookupArgs : Get("t1", ns, ty, arg)

SpecLookup == Init /\ [][NextLookup]_vars

\* One caller that creates, queries, gets and deletes Projects.
NextQuery ==
    \/ NewZero /\ NoFailure
    \/ Open
    \/ \E ns \in Namespaces, obj \in ProjectObjs :
          ops < MaxQueryOps /\ CreateLock("t1", ns, obj)
    \/ Create("t1") /\ NoFailure
    \/ \E ns \in Namespaces, ty \in TypeNames, f \in Filters : Query("t1", ns, ty, f)
    \/ \E ns \in Namespaces, ty \in TypeNames, arg \in GetArgs : Get("t1", ns, ty, arg)
    \/ \E ns \in Namespaces, ty \in TypeNames, arg \in GetArgs :
          ops < MaxQueryOps /\ Delete("t1", ns, ty, arg)

SpecQuery == Init /\ [][NextQuery]_vars

\* One caller that creates objects Create accepts and objects it rejects.
NextValidate ==
    \/ NewZero /\ NoFailure
    \/ Open
    \/ \E ns \in Namespaces, obj \in PtrObjs \cup BadObjs \cup GoodObjs :
          ops < MaxStoreOps /\ CreateLock("t1", ns, obj)
    \/ Create("t1") /\ NoFailure

SpecValidate == Init /\ [][NextValidate]_vars

\* One caller that upserts objects, and upserts the object it got back again
\* with its name changed.
NextUpsert ==
    \/ NewZero /\ NoFailure
    \/ Open
    \/ \E ns \in Namespaces, obj \in ProjectObjs \cup BranchObjs :
          ops < MaxStoreOps /\ UpsertLock("t1", ns, obj, NoObj)
    \/ \E n \in Names \cup {"B"} :
          /\ ops < MaxStoreOps
          /\ dbret.op = "Upsert" /\ dbret.err = "nil" /\ n # dbret.obj.name
          /\ UpsertLock("t1", dbret.ns, [dbret.obj EXCEPT !.name = n], dbret.obj)
    \/ Upsert("t1") /\ NoFailure

SpecUpsert == Init /\ [][NextUpsert]_vars

\* One caller of Create, and direct callers of readTs and nextNS that hold no
\* lock of the handle.
NextRead ==
    \/ NewZero
    \/ Open
    \/ CreateLock("t1", 0, [NoObj EXCEPT !.name = "P", !.clerk_id = "k1"])
    \/ Create("t1")
    \/ EnvReadTs
    \/ EnvNextNS(MaxNsCalls)

SpecRead == Init /\ [][NextRead]_vars

\* One caller of Create who may cancel its context while the call runs, on
\* storage that does not fail, over restarts of the process.
NextCancel ==
    \/ NewZero /\ NoFailure
    \/ Open
    \/ CreateLock("t1", 0, [NoObj EXCEPT !.name = "P", !.clerk_id = "k1"])
    \/ Create("t1") /\ NoFailure
    \/ CallerCancels("t1")
    \/ crashes < MaxRestarts /\ Crash

SpecCancel == Init /\ [][NextCancel]_vars

\* filtersToQueryFunc on every filter of the bounded sets, for both types.
NextFilter ==
    \/ \E ty \in TypeNames, f \in LeafFilters : filtersToQueryFunc("t1", ty, f)
    \/ \E ty \in TypeNames, f \in LogicalFilters : filtersToQueryFunc("t1", ty, f)

SpecFilter == Init /\ [][NextFilter]_vars

\* paginationToQueryString on every Pagination of the bounded set.
NextPagination ==
    \E t \in Threads, p \in Paginations : PaginationString(t, p)

SpecPagination == Init /\ [][NextPagination]_vars

\* One caller that creates Projects in one namespace and queries them with
\* comparisons, and sorted with a limit and an offset.
NextSorted ==
    \/ NewZero /\ NoFailure
    \/ Open
    \/ \E obj \in ProjectObjs : ops < MaxSortOps /\ CreateLock("t1", 0, obj)
    \/ Create("t1") /\ NoFailure
    \/ \E q \in ComparisonQueries : Query("t1", 0, "Project", q)
    \/ \E q \in PagedQueries : Query("t1", 0, "Project", q)

SpecSorted == Init /\ [][NextSorted]_vars

\* ============================================================== claims

\* C1: the UIDs handed out are strictly increasing and never repeat, and so
\* are the timestamps, across any calls and restarts: every range handed out
\* starts above the end of the range handed out before it and does not end
\* below its start.
C1_MonotonicAcrossRestarts ==
    /\ uidOut.StartId # Nil =>
          uidOut.prev < uidOut.StartId /\ uidOut.StartId <= uidOut.EndId
    /\ tsOut.StartId # Nil => tsOut.prev < tsOut.StartId

\* C2: whenever nextUIDs or nextTS returns a value, the LeaseState record
\* persisted at that moment has a maximum strictly greater than the value.
C2_PersistedBeforeHandedOut ==
    /\ ret.op = "nextUIDs" /\ ~ret.err =>
          pstore.found /\ pstore.MaxUID > ret.EndId
    /\ ret.op = "nextTS" /\ ~ret.err =>
          pstore.found /\ pstore.MaxTxnTs > ret.EndId

\* C3: when the LeaseState write of a lease extension fails, the call returns
\* an error and the in-memory maximum is not advanced: it still equals the
\* persisted maximum, as it did before the call.
C3_FailedLeaseKeepsMax ==
    /\ ret.op = "nextUIDs" /\ ret.err => maxLeasedUID = pstore.MaxUID
    /\ ret.op = "nextTS" /\ ret.err => maxLeasedTs = pstore.MaxTxnTs

\* C4: on startup with a persisted LeaseState, newZero sets min = max = the
\* persisted maximum for UIDs and for timestamps and primes the engine's
\* max-assigned timestamp and max UID from them before any lease is taken;
\* the first UID and the first timestamp issued after the restart are not
\* below the persisted maxima.
C4_RecoveryFromPersisted ==
    /\ zpc = "leaseUIDs" /\ pstore.found =>
          /\ minLeasedUID = pstore.MaxUID /\ maxLeasedUID = pstore.MaxUID
          /\ minLeasedTs = pstore.MaxTxnTs /\ maxLeasedTs = pstore.MaxTxnTs
          /\ oracleMaxAssigned = U64(pstore.MaxTxnTs + UintMod - 1)
          /\ workerMaxUID = U64(pstore.MaxUID + UintMod - 1)
          /\ firstUID = Nil /\ firstTs = Nil
    /\ ~boot.fresh /\ firstUID # Nil => firstUID >= boot.uid
    /\ ~boot.fresh /\ firstTs # Nil => firstTs >= boot.ts

\* A restarted process that loaded a record has handed out a UID and a timestamp.
C4_Witness ==
    /\ zpc = "up" /\ ~boot.fresh /\ crashes >= 1
    /\ firstUID # Nil /\ firstTs # Nil

\* C5: a Create call holds the process-wide write lock from before it allocates
\* its identifier until after its mutation is applied and committed, so that
\* while one Create call is between its first step and its return, no other
\* Create call is.
C5_CreateSerialized ==
    /\ \A t \in Threads : pc[t] # "idle" => mutex = t
    /\ \A t \in Threads : \A u \in Threads \ {t} : pc[t] = "idle" \/ pc[u] = "idle"

\* One Create has returned its identifier and the other caller's Create is
\* about to commit.
C5_Witness ==
    /\ call["t1"].err = "nil" /\ pc["t1"] = "idle"
    /\ pc["t2"] = "applyCommited"

\* C6: for every Create call that reaches the engine, the start and the commit
\* timestamp are each drawn from the lease manager with startTs < commitTs, the
\* mutation is proposed at startTs before it is marked committed with
\* (startTs, commitTs), and it is never marked committed when proposing failed.
C6_CommitProtocol ==
    \A t \in Threads :
       LET c == call[t]
           e == c.engine
       IN /\ c.commitTs # Nil => c.startTs # Nil /\ c.startTs < c.commitTs
          /\ \A i \in 1..Len(e) :
                /\ e[i][1] = "mutate" => c.startTs # Nil /\ c.commitTs # Nil
                /\ e[i][1] = "commit" => i > 1 /\ e[i - 1] = <<"mutate", TRUE>>

\* C7: a Create attempted on a closed handle returns ErrClosedDB and issues no
\* schema alteration, mutation or commit to the engine.
C7_ClosedBeforeEngine ==
    \A t \in Threads :
       call[t].closedAtEntry =>
          /\ call[t].engine = <<>>
          /\ pc[t] \in {"idle", "getNamespace"}
          /\ pc[t] = "idle" => call[t].err = ErrClosedDB

\* A Create attempted on a closed handle has returned.
C7_Witness ==
    \E t \in Threads :
       call[t].closedAtEntry /\ pc[t] = "idle" /\ call[t].err = ErrClosedDB

\* What Get returns for the object a Create has just returned, by identifier
\* and by its unique field.
JustCreated == dbret.op = "Create" /\ dbret.err = "nil"
GetCreatedByGid ==
    executeGetWithObject(store, dbret.ns, dbret.type, ByGid(dbret.gid))
GetCreatedByField(f) ==
    executeGetWithObject(store, dbret.ns, dbret.type, ByField(f, dbret.obj[f]))

Own(o) == [gid |-> o.gid, name |-> o.name, clerk_id |-> o.clerk_id, link |-> o.proj.gid]

GetByKey(k) == executeGetWithObject(store, k.ns, k.type, k.arg)
NotFound(k) ==
    GetByKey(k) = [err |-> ErrNoObjFound, gid |-> 0, obj |-> [NoObj EXCEPT !.type = k.type]]

\* C9 as stated: after an object has been deleted, every later Get by its
\* identifier or by a unique-field value it had fails with "no object found"
\* and returns none of its former field values.
C9_DeleteThenGet == \A k \in deleted : NotFound(k)

\* C9, amended: after an object has been deleted, a Get by its identifier or by
\* a unique-field value it had fails with "no object found" for as long as no
\* entity is stored under that identifier or with that value; a value that
\* another stored entity carried when the object was deleted is excepted.
C9_DeleteThenGetUntilStored == \A k \in gone : NotFound(k)

\* A Get by the unique field of a deleted object has returned.
C9_Witness ==
    /\ dbret.op = "Get" /\ dbret.arg.kind = "cf"
    /\ [ns |-> dbret.ns, type |-> dbret.type, arg |-> dbret.arg] \in gone

\* A Create has returned whose nested object had no identifier and a unique
\* value that stored entities of the namespace carried.
LinkedByKey(t) ==
    /\ dbret.op = "Create" /\ dbret.who = t /\ dbret.err = "nil"
    /\ call[t].byKey /\ call[t].nBefore > 0
StoredNested(t) ==
    Carriers(store, call[t].ns, "Project", "clerk_id", call[t].obj.proj.clerk_id)

\* C10 as stated: such a Create stamps the nested object with the identifier
\* of the existing entity and creates no nested entity, and afterwards exactly
\* one entity with that unique value exists.
C10_DedupOnLinking ==
    \A t \in Threads :
       LinkedByKey(t) =>
          /\ call[t].obj.proj.gid \in StoredNested(t)
          /\ \A w \in call[t].mut : w.uid = call[t].gid
          /\ Cardinality(StoredNested(t)) = 1

\* C10, amended: such a Create stamps the nested object with the identifier of
\* an existing entity and creates no nested entity: as many entities with that
\* unique value exist afterwards as before, exactly one when it was one.
C10_DedupKeepsCount ==
    \A t \in Threads :
       LinkedByKey(t) =>
          /\ call[t].obj.proj.gid \in StoredNested(t)
          /\ \A w \in call[t].mut : w.uid = call[t].gid
          /\ Cardinality(StoredNested(t)) = call[t].nBefore

\* Two objects have been linked to the one entity that carries the value.
C10_Witness ==
    /\ LinkedByKey("t1") /\ call["t1"].dedup /\ call["t1"].nBefore = 1
    /\ \E u \in UIDs \ {call["t1"].gid} :
          store[call["t1"].ns][u][GetPredicateName("Branch", "proj")] = call["t1"].obj.proj.gid

\* An Upsert has returned for the object an earlier Upsert returned, with its
\* name changed.
UpsertedAgain(t) ==
    /\ dbret.op = "Upsert" /\ dbret.who = t /\ dbret.err = "nil"
    /\ call[t].prev # NoObj

\* C11: upserting an object and then upserting the object that came back with
\* one scalar field changed returns the same identifier both times and adds no
\* entity, and a following Get by the identifier returns the new value of the
\* changed field with every other field unchanged.
C11_UpsertConvergence ==
    \A t \in Threads :
       UpsertedAgain(t) =>
          LET c == call[t]
              g == executeGetWithObject(store, c.ns, c.obj.type, ByGid(dbret.gid))
          IN /\ dbret.gid # 0 /\ dbret.gid = c.prev.gid
             /\ Cardinality(Stored(store, c.ns)) = c.nStored
             /\ g.err = "nil" /\ g.gid = dbret.gid
             /\ g.obj.name = c.obj.name /\ g.obj.name # c.prev.name
             /\ g.obj.clerk_id = c.prev.clerk_id
             /\ g.obj.proj.gid = c.prev.proj.gid

\* The second Upsert of an object has returned and the namespace holds exactly
\* one entity.
C11_Witness ==
    /\ UpsertedAgain("t1")
    /\ Cardinality(Stored(store, call["t1"].ns)) = 1

\* C12: after a successful Create the identifier field of the caller's object
\* equals the identifier returned, that identifier is not zero, and the nested
\* object of the caller's object carries an identifier that is not zero.
C12_IdentifiersStamped ==
    dbret.op = "Create" /\ dbret.err = "nil" =>
       /\ dbret.obj.gid = dbret.gid
       /\ dbret.gid # 0
       /\ dbret.type = "Branch" => dbret.obj.proj.gid # 0

\* A Create has returned that created its nested object with it.
C12_Witness ==
    /\ dbret.op = "Create" /\ dbret.err = "nil" /\ dbret.type = "Branch"
    /\ call[dbret.who].byKey /\ ~call[dbret.who].dedup
    /\ dbret.obj.proj.gid \notin {0, dbret.gid}

\* The query of a Get matches no stored entity of the namespace.
ZeroResults(ns, typeName, arg) ==
    IF arg.kind = "gid"
    THEN arg.gid \notin Stored(store, ns)
    ELSE Carriers(store, ns, typeName, arg.Key, arg.Value) = {}

\* C13: a Get by identifier or by ConstrainedField whose query yields zero
\* results fails with the "no object found" error, and no Get returns a
\* zero-valued object together with a nil error.
C13_ZeroResultsFail ==
    dbret.op = "Get" =>
       /\ ZeroResults(dbret.ns, dbret.type, dbret.arg) =>
             dbret.err = ErrNoObjFound /\ dbret.gid = 0
       /\ ~(dbret.err = "nil" /\ dbret.obj = [NoObj EXCEPT !.type = dbret.type])

\* A Get by a value that no entity of a namespace with entities carries has
\* returned.
C13_Witness ==
    /\ dbret.op = "Get" /\ dbret.arg.kind = "cf" /\ dbret.err = ErrNoObjFound
    /\ Stored(store, dbret.ns) # {}

\* The entities a Query is to return.
Matching(ns, typeName, filter) ==
    {u \in Stored(store, ns) :
        /\ \E f \in ScalarFields : store[ns][u][GetPredicateName(typeName, f)] # ""
        /\ filter # NoFilter =>
              store[ns][u][GetPredicateName(typeName, filter.Filter.Field)] = filter.Filter.Equals}

\* C14 as stated: no operation returns a non-error empty result: a Get without
\* a match fails, and a Query whose filter matches no stored object does not
\* return empty identifier and object lists together with a nil error.
C14_AbsenceIsError ==
    /\ dbret.op = "Get" /\ ZeroResults(dbret.ns, dbret.type, dbret.arg) =>
          dbret.err = ErrNoObjFound
    /\ dbret.op = "Query" /\ Matching(dbret.ns, dbret.type, dbret.arg) = {} =>
          ~(dbret.err = "nil" /\ dbret.gids = <<>> /\ dbret.objs = <<>>)

\* C14, amended: Get and Delete report absence as the "no object found" error
\* and never return an empty result without an error; a Query whose filter
\* matches no stored object returns empty identifier and object lists with a
\* nil error, and any Query returns one identifier and one object per match.
C14_AbsenceIsErrorForGet ==
    /\ dbret.op = "Get" /\ ZeroResults(dbret.ns, dbret.type, dbret.arg) =>
          dbret.err = ErrNoObjFound
    /\ dbret.op \in {"Get", "Delete"} /\ dbret.err = "nil" =>
          dbret.gid # 0 /\ dbret.obj # [NoObj EXCEPT !.type = dbret.type]
    /\ dbret.op = "Query" =>
          /\ dbret.err = "nil"
          /\ Len(dbret.gids) = Cardinality(Matching(dbret.ns, dbret.type, dbret.arg))
          /\ Len(dbret.objs) = Len(dbret.gids)
          /\ {dbret.gids[i] : i \in 1..Len(dbret.gids)} =
                Matching(dbret.ns, dbret.type, dbret.arg)

\* A Query with a filter that no entity of a namespace with entities passes has
\* returned empty lists.
C14_Witness ==
    /\ dbret.op = "Query" /\ dbret.arg # NoFilter
    /\ dbret.err = "nil" /\ dbret.gids = <<>> /\ dbret.objs = <<>>
    /\ Matching(dbret.ns, dbret.type, NoFilter) # {}

\* The positions of a Create that has not left the encode step.
BeforeEngine == {"idle", "getNamespace", "nextUID", "leaseUID", "generate"}

\* A Create applied nothing: it issued no schema alteration, proposed and
\* committed no mutation, and no read finds an entity under its identifier.
AppliedNothing(t) ==
    /\ call[t].engine = <<>> /\ call[t].mut = {}
    /\ call[t].startTs = Nil /\ call[t].commitTs = Nil
    /\ pc[t] \in BeforeEngine
    /\ call[t].gid # 0 => call[t].gid \notin Stored(store, call[t].ns)

\* C15: a Create whose input is not struct-shaped (a pointer to a pointer to a
\* struct) fails with "expected struct, got ptr" and applies nothing.
C15_NonStructRejected ==
    \A t \in Threads :
       Kind(call[t].obj.type) # "struct" /\ (pc[t] # "idle" \/ dbret.who = t) =>
          /\ AppliedNothing(t)
          /\ pc[t] = "idle" => dbret.err = ErrExpectedStruct /\ dbret.gid = 0

\* A Create of a pointer has returned after entities were stored.
C15_Witness ==
    /\ dbret.op = "Create" /\ dbret.type \in PtrTypeNames
    /\ dbret.err = ErrExpectedStruct
    /\ Stored(store, dbret.ns) # {}

\* No entity of the namespace carries a triple of the type.
NoneOfType(ns, typeName) ==
    \A u \in UIDs : \A f \in ScalarFields :
       store[ns][u][GetPredicateName(typeName, f)] = ""

\* C16: a Create of an object with a nested-object field whose type has no
\* field with a uniqueness constraint fails with the "no unique constraint"
\* error naming the nested type, and neither the outer nor the nested entity
\* is stored.
C16_NestedWithoutUnique ==
    \A t \in Threads :
       LET outer == call[t].obj.type
           nested == NestedType(outer)
       IN /\ nested # "" /\ (pc[t] # "idle" \/ dbret.who = t)
          /\ \A f \in ScalarFields : Constraint(nested, f) = "none"
          =>
             /\ AppliedNothing(t)
             /\ NoneOfType(call[t].ns, outer) /\ NoneOfType(call[t].ns, nested)
             /\ pc[t] = "idle" => dbret.err = NoUniqueConstr(nested) /\ dbret.gid = 0

\* A Create of a BadBranch has returned after entities were stored.
C16_Witness ==
    /\ dbret.op = "Create" /\ dbret.type = "BadBranch"
    /\ dbret.err = NoUniqueConstr("BadProject")
    /\ Stored(store, dbret.ns) # {}

\* What the claim says of a nextUIDs call with request n made at minLeasedUID
\* n.min: the range returned, and minLeasedUID after it.
ClaimedRange(n) ==
    IF n.Bump
    THEN IF n.Val < n.min
         THEN [StartId |-> n.min, EndId |-> n.min, min |-> U64(n.min + 1)]
         ELSE [StartId |-> n.min, EndId |-> n.Val, min |-> U64(n.Val + 1)]
    ELSE [StartId |-> n.min, EndId |-> U64(n.min + n.Val + UintMod - 1),
          min |-> U64(n.min + n.Val)]

\* C18: nextUIDs in bump mode with floor f at minLeasedUID m issues the single
\* identifier m and sets min to m+1 when f is below m, and otherwise returns
\* [m, f] and sets min to f+1; without bump and with count c it returns
\* [m, m+c-1] and sets min to m+c.
C18_NextUIDsRanges ==
    /\ zlock # NoOne =>
          /\ zresp = [StartId |-> ClaimedRange(num).StartId, EndId |-> ClaimedRange(num).EndId]
          /\ minLeasedUID = ClaimedRange(num).min
    /\ ret.op = "nextUIDs" /\ ~ret.err =>
          /\ ret.StartId = ClaimedRange(num).StartId
          /\ ret.EndId = ClaimedRange(num).EndId
          /\ minLeasedUID = ClaimedRange(num).min

\* nextUIDs has returned a single identifier for a floor below minLeasedUID,
\* after the range that ended on that floor.
C18_Witness ==
    /\ ret.op = "nextUIDs" /\ ~ret.err
    /\ num.Bump /\ num.Val < num.min /\ ret.StartId = ret.EndId
    /\ uidOut.prev = BumpStride

\* A step of the running lease manager that moves the upper bound of the UID
\* space leaves exactly one batch above the next identifier to hand out.
LeasedUIDBatch ==
    maxLeasedUID' # maxLeasedUID /\ zpc # "down" /\ zpc' # "down" =>
        U64(maxLeasedUID' + UintMod - minLeasedUID') = leaseUIDAtATime

\* The same for the timestamp space.
LeasedTsBatch ==
    maxLeasedTs' # maxLeasedTs /\ zpc # "down" /\ zpc' # "down" =>
        U64(maxLeasedTs' + UintMod - minLeasedTs) = leaseTsAtATime

\* A nextNS call that writes the record writes more than the id it returns.
LeasedNSBatch ==
    ret'.op = "nextNS" /\ lastNS' # lastNS /\ pstore' # pstore =>
        pstore'.MaxNsID # lastNS'

\* C17: the three id spaces are leased in batches of leaseUIDAtATime and
\* leaseTsAtATime: every extension of the UID lease and of the timestamp lease
\* leaves max - min equal to the batch size, and nextNS does not persist the
\* record for one namespace id at a time.
C17_FixedSizeBatches ==
    [][LeasedUIDBatch /\ LeasedTsBatch /\ LeasedNSBatch]_vars

\* The namespace part of C17 alone.
C17_NamespacesInBatches == [][LeasedNSBatch]_vars

\* The engine was told to mark the mutation of t's Create committed, and did.
CommitApplied(t) ==
    \E i \in 1..Len(call[t].engine) : call[t].engine[i] = <<"commit", TRUE>>

\* C19: readTs returns the last committed timestamp: the value it returned is
\* never the start or commit timestamp of a Create whose commit has not been
\* applied, whether that Create is still running or has returned an error.
C19_ReadTsIsCommitted ==
    ret.op = "readTs" =>
        \A t \in Threads :
            ret.StartId \in {call[t].startTs, call[t].commitTs} => CommitApplied(t)

\* The part of C19 about a Create that is still running.
C19_ReadTsDuringCreate ==
    ret.op = "readTs" =>
        \A t \in Threads :
            pc[t] \in {"commitTs", "expandEdges", "applyMutations", "applyCommited"} =>
                ret.StartId \notin {call[t].startTs, call[t].commitTs}

\* The lease fields and the record as they are in the next state.
LeaseUnchanged ==
    UNCHANGED <<minLeasedUID, maxLeasedUID, minLeasedTs, maxLeasedTs, lastNS, pstore>>

\* C20: readTs changes nothing: a step that ends with a value returned by readTs
\* leaves minLeasedUID, maxLeasedUID, minLeasedTs, maxLeasedTs, lastNS and the
\* persisted record as they were, the value is minLeasedTs - 1, and minLeasedTs
\* changes only in a nextTS call or when the process starts or dies, so that two
\* readTs calls with no nextTS between them return the same value.
C20_ReadTsNonMutating ==
    [][/\ ret'.op = "readTs" =>
             /\ LeaseUnchanged
             /\ ret'.StartId = U64(minLeasedTs + UintMod - 1)
       /\ minLeasedTs' # minLeasedTs =>
             \/ ret'.op = "nextTS"
             \/ zpc = "down" \/ zpc' = "down"]_vars

\* readTs has returned the timestamp that the commit of a Create drew, after a
\* nextNS call.
C20_Witness ==
    /\ ret.op = "readTs" /\ ret.StartId = tsOut.EndId
    /\ \E t \in Threads : call[t].commitTs = ret.StartId
    /\ lastNS > 0

\* The error of a cancelled context.
ErrCancelled == "context canceled"

\* C21: when the caller's context is cancelled while Create runs, Create makes
\* no further engine call (schema alteration, mutation apply, commit) and
\* returns the context-cancelled error, as long as the process lives.
C21_CancelAborts ==
    [][\A t \in Threads :
          call[t].cancelled /\ pc[t] # "idle" /\ zpc' # "down" =>
             /\ call'[t].engine = call[t].engine
             /\ pc'[t] = "idle" => call'[t].err = ErrCancelled]_vars

\* The predicate families of a Filter node in the order of precedence, and the
\* dql_query builder of each.
Precedence ==
    <<"And", "Or", "Not", "Equals", "AllOfTerms", "AnyOfTerms", "AllOfText",
      "AnyOfText", "RegExp", "LessThan", "LessOrEqual", "GreaterThan",
      "GreaterOrEqual", "SimilarTo">>
Builder ==
    <<"And", "Or", "Not", "BuildEqQuery", "BuildAllOfTermsQuery",
      "BuildAnyOfTermsQuery", "BuildAllOfTextQuery", "BuildAnyOfTextQuery",
      "BuildRegExpQuery", "BuildLtQuery", "BuildLeQuery", "BuildGtQuery",
      "BuildGeQuery", "BuildSimilarToQuery">>
Logical == {"And", "Or", "Not"}
TermLists == {"AllOfTerms", "AnyOfTerms", "AllOfText", "AnyOfText"}

\* The family fam is set on the node f.
IsSet(f, fam) ==
    IF fam \in Logical THEN f[fam] # NilFilter
    ELSE IF fam \in TermLists THEN f[fam] # <<>>
    ELSE IF fam = "SimilarTo" THEN ~f.SimilarTo.nil
    ELSE f[fam] # ""

\* The families set on f, by their rank in the precedence.
SetRanks(f) == {i \in 1..Len(Precedence) : IsSet(f, Precedence[i])}

\* clause is built from the node f as the precedence prescribes.
RECURSIVE BuiltByPrecedence(_, _, _)
BuiltByPrecedence(typeName, f, clause) ==
    IF SetRanks(f) = {} THEN clause = EmptyClause
    ELSE LET i == CHOOSE r \in SetRanks(f) : \A q \in SetRanks(f) : r <= q
             fam == Precedence[i]
         IN /\ clause # EmptyClause
            /\ clause[1] = Builder[i]
            /\ IF fam \in Logical
               THEN /\ Len(clause) = 2
                    /\ BuiltByPrecedence(typeName, f[fam], clause[2])
               ELSE /\ clause[2] = GetPredicateName(typeName, f.Field)
                    /\ IF fam \in TermLists
                       THEN Len(clause) = 3 /\ clause[3] = Join(f[fam])
                       ELSE IF fam = "SimilarTo"
                       THEN clause = <<Builder[i], clause[2], f.TopK, f.SimilarTo>>
                       ELSE Len(clause) = 3 /\ clause[3] = f[fam]

\* C22: for every Filter node, filterToQueryFunc builds its clause from exactly
\* one predicate family, the first that is set in the order And, Or, Not,
\* Equals, AllOfTerms, AnyOfTerms, AllOfText, AnyOfText, RegExp, LessThan,
\* LessOrEqual, GreaterThan, GreaterOrEqual, SimilarTo; a logical operator
\* wraps the clause built in the same way from its child, and a node with
\* nothing set gives the empty clause.
C22_FilterPrecedence ==
    dbret.op = "filtersToQueryFunc" =>
        BuiltByPrecedence(dbret.type, dbret.arg, dbret.clause)

\* A filter with And, Or, Not and two predicates of its own was given, And
\* pointing to a child with two predicates set, and the clause is the And of the
\* child's first.
C22_Witness ==
    /\ dbret.op = "filtersToQueryFunc"
    /\ dbret.arg.And # NilFilter
    /\ Cardinality(SetRanks(dbret.arg)) = 5
    /\ Cardinality(SetRanks(dbret.arg.And)) = 2
    /\ dbret.clause = <<"And", <<"BuildAnyOfTermsQuery", GetPredicateName(dbret.type, "name"), "P Q">>>>

\* The stored value of a field of an entity, and the entities of a type.
FieldOf(ns, typeName, u, field) == store[ns][u][GetPredicateName(typeName, field)]
OfType(ns, typeName) == Matching(ns, typeName, NoFilter)

Comparisons == {"LessThan", "LessOrEqual", "GreaterThan", "GreaterOrEqual"}

\* The value v satisfies the comparison fam with the argument arg.
Satisfies(v, fam, arg) ==
    CASE fam = "LessThan" -> StrRank(v) < StrRank(arg)
      [] fam = "LessOrEqual" -> StrRank(v) <= StrRank(arg)
      [] fam = "GreaterThan" -> StrRank(v) > StrRank(arg)
      [] fam = "GreaterOrEqual" -> StrRank(v) >= StrRank(arg)

\* The rankings of the entities S by a field: every arrangement of S in which
\* the values of the field do not decrease.
Rankings(ns, typeName, S, field) ==
    {r \in [1..Cardinality(S) -> S] :
        /\ \A i, j \in 1..Cardinality(S) : i # j => r[i] # r[j]
        /\ \A i, j \in 1..Cardinality(S) :
              i < j => StrRank(FieldOf(ns, typeName, r[i], field))
                          <= StrRank(FieldOf(ns, typeName, r[j], field))}

\* The ranks lo..hi of a ranking, as far as it goes.
Ranks(r, lo, hi) == SubSeq(r, lo, IF hi < Len(r) THEN hi ELSE Len(r))

\* C23: a Query over objects created in sequence returns, with a comparison
\* filter, exactly the stored objects that satisfy it, in ascending order of
\* identifier (the order of creation); with an ascending sort on a field, a
\* limit L >= 1 and an offset O and no filter, exactly the objects ranked
\* O+1 to O+L by that field; and in every case as many identifiers as objects,
\* the i-th object being the stored object of the i-th identifier.
C23_QueryResults ==
    dbret.op = "Query" /\ dbret.err = "nil" =>
        LET q == dbret.arg
            S == OfType(dbret.ns, dbret.type)
        IN /\ Len(dbret.gids) = Len(dbret.objs)
           /\ \A i \in 1..Len(dbret.gids) :
                 /\ dbret.objs[i].gid = dbret.gids[i]
                 /\ dbret.gids[i] \in S
                 /\ \A f \in ScalarFields :
                       dbret.objs[i][f] = FieldOf(dbret.ns, dbret.type, dbret.gids[i], f)
           /\ q \in ComparisonQueries =>
                 dbret.gids = Ascending(
                    {u \in S : \E fam \in Comparisons :
                        /\ q.Filter[fam] # ""
                        /\ Satisfies(FieldOf(dbret.ns, dbret.type, u, q.Filter.Field),
                                     fam, q.Filter[fam])})
           /\ q \in PagedQueries /\ q.Pagination.Limit >= 1 =>
                 \E r \in Rankings(dbret.ns, dbret.type, S, q.Sorting.OrderAscField) :
                    dbret.gids = Ranks(r, q.Pagination.Offset + 1,
                                       q.Pagination.Offset + q.Pagination.Limit)

\* Three objects are stored and a sorted query with limit 1 and offset 1 has
\* returned one that is not the second created.
C23_Witness ==
    /\ dbret.op = "Query" /\ dbret.err = "nil"
    /\ dbret.arg \in PagedQueries
    /\ dbret.arg.Pagination = Pagination(1, 1)
    /\ Cardinality(OfType(dbret.ns, dbret.type)) = 3
    /\ Len(dbret.gids) = 1
    /\ dbret.gids[1] # Ascending(OfType(dbret.ns, dbret.type))[2]

\* A Create has returned whose nested object carried an identifier.
LinkedByGid(t) ==
    /\ dbret.op = "Create" /\ dbret.who = t /\ dbret.err = "nil"
    /\ NestedType(call[t].obj.type) # "" /\ ~call[t].byKey

\* C24: when the nested object carries an identifier at Create time, the outer
\* object is linked to the entity of that identifier: no identifier is
\* allocated for the nested object and no nested entity is written, so that the
\* outer object's identifier is the last one handed out and follows the one
\* handed out before it.
C24_LinkedByReference ==
    \A t \in Threads :
       LinkedByGid(t) =>
          LET c == call[t]
          IN /\ c.obj.proj.gid # 0
             /\ store[c.ns][c.gid][GetPredicateName(c.obj.type, "proj")] = c.obj.proj.gid
             /\ \A w \in c.mut : w.uid = c.gid
             /\ uidOut.StartId = c.gid /\ uidOut.EndId = c.gid
             /\ c.gid = IF uidOut.prev = Nil THEN initialUID ELSE uidOut.prev + 1

\* A Project was created and then a Branch whose nested Project carried the
\* Project's identifier: the Branch has the next identifier.
C24_Witness ==
    /\ LinkedByGid("t1")
    /\ call["t1"].obj.proj.gid = initialUID /\ call["t1"].gid = initialUID + 1
    /\ store[call["t1"].ns][initialUID][GetPredicateName("Project", "name")] = "P"
    /\ Cardinality(Stored(store, call["t1"].ns)) = 2

\* No lease-manager operation is in progress: newZero has returned the lease
\* manager and no caller is inside nextUIDs.
Quiescent == zpc = "up" /\ zlock = NoOne

\* C25: whenever no lease-manager operation is in progress (after newZero and
\* after each call of nextUIDs, nextTS or nextNS has returned, with or without
\* an error), minLeasedUID <= maxLeasedUID and minLeasedTs <= maxLeasedTs.
C25_MinBelowMax ==
    Quiescent => minLeasedUID <= maxLeasedUID /\ minLeasedTs <= maxLeasedTs

\* C26: the leased maxima never decrease and the lease arithmetic never wraps:
\* no step of the running lease manager lowers maxLeasedUID or maxLeasedTs, and
\* no step, across allocations, lease extensions and restarts, lowers the
\* maxima of the persisted record, from which every restart starts.
C26_MaximaNeverDecrease ==
    [][/\ zpc # "down" /\ zpc' # "down" =>
             maxLeasedUID' >= maxLeasedUID /\ maxLeasedTs' >= maxLeasedTs
       /\ pstore.found =>
             /\ pstore'.found
             /\ pstore'.MaxUID >= pstore.MaxUID
             /\ pstore'.MaxTxnTs >= pstore.MaxTxnTs]_vars

\* C27: a nextUIDs call whose allocation takes at least everything that was
\* left in the batch (minLeasedUID reaches maxLeasedUID) has made exactly one
\* lease extension when it returns, with a range or, the write failing, with an
\* error, whatever the count or the bump floor; a call that leaves at least one
\* identifier in the batch has made none.
C27_OneLeasePerCall ==
    ret.op = "nextUIDs" =>
        num.leases = IF ClaimedRange(num).min >= num.max THEN 1 ELSE 0

\* The engine calls of t's Create so far that are of the kind op.
EngineCalls(t, op) ==
    {i \in 1..Len(call[t].engine) : call[t].engine[i][1] = op}

\* C28: within a Create the mutation is submitted to the engine only after the
\* identifier was allocated, the mutation set generated, the schema altered
\* and both timestamps drawn, all with success and the alteration before the
\* mutation; a Create that returns the error of one of those steps has
\* proposed and committed no mutation.
C28_MutationAfterPreparation ==
    \A t \in Threads :
       LET c == call[t]
       IN /\ \A i \in EngineCalls(t, "mutate") :
                /\ c.gid \in uidOut.seen
                /\ \E w \in c.mut : w.uid = c.gid
                /\ c.startTs # Nil /\ c.commitTs # Nil
                /\ \E j \in 1..(i - 1) : c.engine[j] = <<"alter", TRUE>>
                /\ \A j \in EngineCalls(t, "alter") : j < i /\ c.engine[j][2]
          /\ pc[t] = "idle" /\ c.err \notin {"none", "nil", "mutate", "commit"} =>
                EngineCalls(t, "mutate") = {} /\ EngineCalls(t, "commit") = {}

\* A Create has returned the error of its second timestamp allocation, after
\* the schema was altered.
C28_Witness ==
    \E t \in Threads :
       /\ pc[t] = "idle" /\ call[t].err = "lease"
       /\ call[t].engine = <<<<"alter", TRUE>>>>
       /\ call[t].startTs # Nil /\ call[t].commitTs = Nil
\* C29: every return path of Create releases the write lock, whether the call
\* ended with an error or not, so that a caller waiting for the lock gets it.
Waiting(t) == pc[t] = "lock"

C30_DisjointAllocations ==
    /\ ~uidOut.overlap
    /\ ~tsOut.overlap

\* C31: when a nextUIDs call that extended the lease returns, the value it
\* pushed to the engine with worker.SetMaxUID is the upper bound of the leased
\* range, maxLeasedUID.
C31_PushedUpperBound ==
    ret.op = "nextUIDs" /\ ~ret.err /\ num.leases > 0 =>
        workerMaxUID = maxLeasedUID

\* C32: on a data directory without a LeaseState record the first identifier
\* handed out is initialUID and the first timestamp is initialTs, and no
\* identifier handed out is zeroStateUID and no timestamp handed out is
\* zeroStateTs, restarts included.
C32_ReservedNeverHandedOut ==
    /\ boot.fresh /\ firstUID # Nil => firstUID = initialUID
    /\ boot.fresh /\ firstTs # Nil => firstTs = initialTs
    /\ uidOut.StartId # Nil => zeroStateUID \notin uidOut.StartId..uidOut.EndId
    /\ tsOut.StartId # Nil => tsOut.StartId # zeroStateTs

\* C33: a Create that fails returns identifier 0 with its error; an identifier
\* that nextUID has just given to a Create is not the identifier under which an
\* earlier Create stored its object; and the identifier that a succeeding
\* Create returns is above the identifier of every other stored object.
StoredUIDs == {n \in UIDs : \E ns \in Namespaces : store[ns][n] # NoNode}

C33_AllocationNotRolledBack ==
    /\ dbret.op = "Create" /\ dbret.err # "nil" => dbret.gid = 0
    /\ \A u \in Threads : pc[u] = "generate" => call[u].gid \notin StoredUIDs
    /\ \A u \in Threads :
          pc[u] = "stamp" => \A n \in StoredUIDs \ {call[u].gid} : call[u].gid > n

\* C34: a namespace id that nextNS returns is not 0 and is in the LeaseState
\* record when the call returns; it is above the record's namespace id of
\* before the call, which never decreases, so that the ids returned are
\* strictly increasing and never repeated, over restarts and failed calls.
NextNSReturns == ret'.op = "nextNS" /\ ~ret'.err /\ lastNS' # lastNS

C34_NamespaceIdsIncrease ==
    /\ [](ret.op = "nextNS" /\ ~ret.err =>
             ret.StartId # 0 /\ pstore.found /\ pstore.MaxNsID = ret.StartId)
    /\ [][NextNSReturns => ret'.StartId > pstore.MaxNsID]_vars
    /\ [][pstore'.MaxNsID >= pstore.MaxNsID]_vars
    /\ \A n \in UIDs :
          [](ret.op = "nextNS" /\ ~ret.err /\ ret.StartId = n =>
                [](ret.op = "nextNS" /\ ~ret.err => ret.StartId >= n))

\* nextNS has returned an id in a run that started from a record, after a
\* write of the record failed.
C34_Witness ==
    /\ ret.op = "nextNS" /\ ~ret.err /\ ret.StartId >= 2
    /\ crashes >= 1 /\ writeFailures >= 1

\* C35: a Get by a ConstrainedField whose key is a field of the type without a
\* uniqueness constraint returns the "constraint not defined" error.
C35_UnconstrainedKeyRejected ==
    dbret.op = "Get" /\ dbret.arg.kind = "cf"
       /\ dbret.arg.Key \in ScalarFields \ UniqueFields(dbret.type) =>
          dbret.err = ErrConstraint

\* C36: paginationToQueryString renders the limit exactly when Limit > 0, the
\* offset exactly when Offset > 0 and the cursor exactly when Offset <= 0 and
\* the cursor is not empty, each with its value; never an offset and a cursor
\* together; and nothing at all for a Pagination with nothing set.
Rendered(s, name) == \E i \in 1..Len(s) : s[i][1] = name

C36_PaginationFragments ==
    dbret.op = "paginationToQueryString" =>
       LET p == dbret.arg
           s == dbret.clause
       IN /\ Rendered(s, "first") <=> p.Limit > 0
          /\ Rendered(s, "offset") <=> p.Offset > 0
          /\ Rendered(s, "after") <=> (p.Offset <= 0 /\ p.After # "")
          /\ ~(Rendered(s, "offset") /\ Rendered(s, "after"))
          /\ \A i \in 1..Len(s) :
                s[i][2] = (IF s[i][1] = "first" THEN p.Limit
                           ELSE IF s[i][1] = "offset" THEN p.Offset ELSE p.After)
          /\ \A i, j \in 1..Len(s) : s[i][1] = s[j][1] => i = j
          /\ p.Limit <= 0 /\ p.Offset <= 0 /\ p.After = "" => s = <<>>

\* A Pagination with a limit, an offset and a cursor was rendered: the cursor
\* is left out.
C36_Witness ==
    /\ dbret.op = "paginationToQueryString"
    /\ dbret.arg.Limit > 0 /\ dbret.arg.Offset > 0 /\ dbret.arg.After # ""
    /\ dbret.clause = <<<<"first", dbret.arg.Limit>>, <<"offset", dbret.arg.Offset>>>>

====
